---- MODULE Spec2Model ----
(***************************************************************************)
(* A model of the backtesting core (engine loop, portfolio, orders), the   *)
(* kill-switch triggers and the ATR breakout strategy with its trailing    *)
(* stop engine.  Prices and cash are integers; values the code obtains by  *)
(* division (average prices, ATR, stops, sizes) are exact rationals        *)
(* <<numerator, denominator>>, so float rounding is left out.              *)
(***************************************************************************)
EXTENDS Integers, Sequences, FiniteSets, TLC

(***************************************************************************)
(* Bounds of the model and the input sets.                                 *)
(***************************************************************************)
NumBars == 3
MaxOrders == 2
InitialCash == 4

Symbols == {"A", "B"}
Closes == {1, 2}
Quantities == {1, 2}
LimitPrices == {1, 2}

(***************************************************************************)
(* Optional values: None is the empty sequence, Some(x) a one-element one. *)
(***************************************************************************)
None == <<>>
Some(x) == <<x>>
IsNone(o) == o = <<>>
Val(o) == o[1]

(***************************************************************************)
(* Exact rationals.                                                        *)
(***************************************************************************)
RECURSIVE GCD(_, _)
GCD(a, b) == IF b = 0 THEN a ELSE GCD(b, a % b)

Abs(n) == IF n < 0 THEN -n ELSE n

Norm(n, d) ==
    LET s == IF d < 0 THEN -1 ELSE 1
        g == GCD(Abs(n), Abs(d))
    IN  IF n = 0 THEN <<0, 1>> ELSE <<(s * n) \div g, (s * d) \div g>>

R(n) == <<n, 1>>
RNeg(x) == <<-x[1], x[2]>>
RAdd(x, y) ==
    LET g == GCD(x[2], y[2])
    IN  Norm(x[1] * (y[2] \div g) + y[1] * (x[2] \div g), (x[2] \div g) * y[2])
RSub(x, y) == RAdd(x, RNeg(y))
RMul(x, y) ==
    LET a == Norm(x[1], y[2])
        b == Norm(y[1], x[2])
    IN  Norm(a[1] * b[1], a[2] * b[2])
RDiv(x, y) == RMul(x, Norm(y[2], y[1]))
RLt(x, y) == x[1] * y[2] < y[1] * x[2]
RLe(x, y) == x[1] * y[2] <= y[1] * x[2]
RGt(x, y) == RLt(y, x)
RGe(x, y) == RLe(y, x)
RAbs(x) == <<Abs(x[1]), x[2]>>
RMax(x, y) == IF RGe(x, y) THEN x ELSE y
RMin(x, y) == IF RLe(x, y) THEN x ELSE y

RECURSIVE SumSeq(_)
SumSeq(s) == IF s = <<>> THEN 0 ELSE Head(s) + SumSeq(Tail(s))

RECURSIVE RSumSeq(_)
RSumSeq(s) == IF s = <<>> THEN R(0) ELSE RAdd(Head(s), RSumSeq(Tail(s)))

RECURSIVE SumOver(_, _)
SumOver(S, f) ==
    IF S = {} THEN 0
    ELSE LET x == CHOOSE y \in S : TRUE IN f[x] + SumOver(S \ {x}, f)

(***************************************************************************)
(* Order (backtesting/core/order.py).  The wall-clock timestamp fields are *)
(* left out; created_bar is history: the bar whose callback placed it.     *)
(***************************************************************************)
NewOrder(symbol, quantity, side, price, when) ==
    [symbol |-> symbol, quantity |-> quantity,
     order_type |-> IF IsNone(price) THEN "market" ELSE "limit",
     side |-> side, price |-> price, status |-> "pending",
     fill_price |-> None, created_bar |-> when]

OrderFill(o, price) == [o EXCEPT !.status = "filled", !.fill_price = Some(price)]
OrderCancel(o) == [o EXCEPT !.status = "canceled"]
OrderReject(o) == [o EXCEPT !.status = "rejected"]

Terminal == {"filled", "canceled", "rejected"}

(***************************************************************************)
(* Position (backtesting/core/portfolio.py).  average_price and total_cost *)
(* are rationals.                                                          *)
(***************************************************************************)
NewPosition == [quantity |-> 0, average_price |-> R(0), total_cost |-> R(0)]

\* The average price kept at the first entry's price when shares are added.
AddShares_KeepAverage(p, quantity, price) ==
    IF p.quantity = 0
    THEN [quantity |-> p.quantity + quantity, average_price |-> R(price),
          total_cost |-> R(quantity * price)]
    ELSE [quantity |-> p.quantity + quantity, average_price |-> p.average_price,
          total_cost |-> RAdd(p.total_cost, R(quantity * price))]

AddShares(p, quantity, price) ==
    IF p.quantity = 0
    THEN [quantity |-> p.quantity + quantity, average_price |-> R(price),
          total_cost |-> R(quantity * price)]
    ELSE LET new_total_cost == RAdd(p.total_cost, R(quantity * price))
             new_quantity == p.quantity + quantity
         IN  [quantity |-> new_quantity,
              average_price |-> IF new_quantity # 0
                                THEN RDiv(new_total_cost, R(new_quantity))
                                ELSE R(0),
              total_cost |-> new_total_cost]

\* The cost basis reduced, the quantity left as it was.
RemoveShares_CostOnly(p, quantity) ==
    IF p.quantity > 0
    THEN LET cost_per_share == RDiv(p.total_cost, R(p.quantity))
         IN  [p EXCEPT !.total_cost = RSub(p.total_cost, RMul(R(quantity), cost_per_share))]
    ELSE p

\* Called only with quantity <= p.quantity (execute_order checks it first).
RemoveShares(p, quantity) ==
    IF p.quantity > 0
    THEN LET cost_per_share == RDiv(p.total_cost, R(p.quantity))
         IN  [p EXCEPT !.total_cost = RSub(p.total_cost, RMul(R(quantity), cost_per_share)),
                       !.quantity = p.quantity - quantity]
    ELSE [p EXCEPT !.quantity = p.quantity - quantity]

(***************************************************************************)
(* Portfolio.  positions is a function whose domain is the set of keys of  *)
(* the positions dict.                                                     *)
(***************************************************************************)
NewPortfolio(initial_cash) ==
    [initial_cash |-> initial_cash, cash |-> initial_cash, positions |-> <<>>,
     orders |-> <<>>, trades |-> <<>>, equity_curve |-> <<>>]

\* get_position: the positions dict after the call (a missing key is added).
GetPosition(positions, symbol) ==
    IF symbol \in DOMAIN positions THEN positions
    ELSE positions @@ (symbol :> NewPosition)

PlaceOrder(pf, symbol, quantity, side, price, when) ==
    [pf EXCEPT !.orders = Append(pf.orders, NewOrder(symbol, quantity, side, price, when))]

TradeEntry(o, execution_price, when) ==
    [symbol |-> o.symbol, side |-> o.side, quantity |-> o.quantity,
     price |-> execution_price, value |-> o.quantity * execution_price,
     bar |-> when]

\* A buy filled without the check of the cash.
ExecuteOrder_BuysUnchecked(pf, i, execution_price, when) ==
    LET o == pf.orders[i]
        total_cost == o.quantity * execution_price
    IN  IF o.side = "buy"
        THEN LET ps == GetPosition(pf.positions, o.symbol)
             IN  [pf EXCEPT
                    !.cash = pf.cash - total_cost,
                    !.positions = [ps EXCEPT ![o.symbol] =
                                      AddShares(ps[o.symbol], o.quantity, execution_price)],
                    !.orders[i] = OrderFill(o, execution_price),
                    !.trades = Append(pf.trades, TradeEntry(o, execution_price, when))]
        ELSE IF o.side = "sell"
        THEN LET ps == GetPosition(pf.positions, o.symbol)
             IN  IF ps[o.symbol].quantity >= o.quantity
                 THEN [pf EXCEPT
                         !.cash = pf.cash + total_cost,
                         !.positions = [ps EXCEPT ![o.symbol] =
                                           RemoveShares(ps[o.symbol], o.quantity)],
                         !.orders[i] = OrderFill(o, execution_price),
                         !.trades = Append(pf.trades, TradeEntry(o, execution_price, when))]
                 ELSE [pf EXCEPT !.positions = ps, !.orders[i] = OrderReject(o)]
        ELSE pf

ExecuteOrder(pf, i, execution_price, when) ==
    LET o == pf.orders[i]
        total_cost == o.quantity * execution_price
    IN  IF o.side = "buy"
        THEN IF pf.cash >= total_cost
             THEN LET ps == GetPosition(pf.positions, o.symbol)
                  IN  [pf EXCEPT
                         !.cash = pf.cash - total_cost,
                         !.positions = [ps EXCEPT ![o.symbol] =
                                           AddShares(ps[o.symbol], o.quantity, execution_price)],
                         !.orders[i] = OrderFill(o, execution_price),
                         !.trades = Append(pf.trades, TradeEntry(o, execution_price, when))]
             ELSE [pf EXCEPT !.orders[i] = OrderReject(o)]
        ELSE IF o.side = "sell"
        THEN LET ps == GetPosition(pf.positions, o.symbol)
             IN  IF ps[o.symbol].quantity >= o.quantity
                 THEN [pf EXCEPT
                         !.cash = pf.cash + total_cost,
                         !.positions = [ps EXCEPT ![o.symbol] =
                                           RemoveShares(ps[o.symbol], o.quantity)],
                         !.orders[i] = OrderFill(o, execution_price),
                         !.trades = Append(pf.trades, TradeEntry(o, execution_price, when))]
                 ELSE [pf EXCEPT !.positions = ps, !.orders[i] = OrderReject(o)]
        ELSE pf

\* A position marked without its quantity.
MarketValue_PriceOnly(p, current_price) == current_price

MarketValue(p, current_price) == p.quantity * current_price

GetTotalValue(pf, prices) ==
    LET held == {s \in DOMAIN pf.positions :
                    s \in DOMAIN prices /\ pf.positions[s].quantity > 0}
    IN  pf.cash + SumOver(held, [s \in held |-> MarketValue(pf.positions[s], prices[s])])

\* The pending orders, newest first.
GetPendingOrders_NewestFirst(pf) ==
    LET n == Len(pf.orders)
    IN  SelectSeq([i \in 1..n |-> n + 1 - i],
                  LAMBDA i : pf.orders[i].status = "pending")

\* get_pending_orders: the indices of the pending orders, in list order.
GetPendingOrders(pf) ==
    SelectSeq([i \in 1..Len(pf.orders) |-> i],
              LAMBDA i : pf.orders[i].status = "pending")

\* The curve kept at one point, the latest.
UpdateEquityCurve_LatestOnly(pf, timestamp, prices) ==
    [pf EXCEPT !.equity_curve =
        <<[timestamp |-> timestamp, value |-> GetTotalValue(pf, prices)]>>]

UpdateEquityCurve(pf, timestamp, prices) ==
    [pf EXCEPT !.equity_curve =
        Append(pf.equity_curve, [timestamp |-> timestamp, value |-> GetTotalValue(pf, prices)])]


(***************************************************************************)
(* Kill-switch triggers (backtesting/killswitch/triggers.py).  A check     *)
(* yields the trigger's new state and its outcome: "true", "false", or     *)
(* "raise" when the call ends in an exception.  equity_history keeps the   *)
(* values; the timestamps stored beside them are never read.               *)
(***************************************************************************)
MaxDrawdown == <<1, 3>>
MaxLoss == 1
StartTime == 570
EndTime == 960

NewTrigger == [activated |-> FALSE]
NewDrawdownTrigger == [activated |-> FALSE, equity_history |-> <<>>]

Activate(t) == [t EXCEPT !.activated = TRUE]

\* KillSwitchTrigger.reset (no trigger overrides it).
TriggerReset(t) == [t EXCEPT !.activated = FALSE]

RECURSIVE MaxOfSeq(_)
MaxOfSeq(s) ==
    IF Len(s) = 1 THEN s[1]
    ELSE LET m == MaxOfSeq(Tail(s)) IN IF s[1] >= m THEN s[1] ELSE m

\* The drawdown recomputed on every call, the latch not consulted.
DrawdownCheck_NoLatch(t, current_value) ==
    LET t1 == [t EXCEPT !.equity_history = Append(t.equity_history, current_value)]
        peak == MaxOfSeq(t1.equity_history)
    IN  IF Len(t1.equity_history) < 2 THEN [trigger |-> t1, result |-> "false"]
        ELSE IF peak = 0 THEN [trigger |-> t1, result |-> "raise"]
        ELSE IF RGe(RDiv(R(peak - current_value), R(peak)), MaxDrawdown)
             THEN [trigger |-> Activate(t1), result |-> "true"]
             ELSE [trigger |-> t1, result |-> "false"]

\* The drawdown measured from the first mark instead of the peak.
DrawdownCheck_FromFirstMark(t, current_value) ==
    IF t.activated THEN [trigger |-> t, result |-> "true"]
    ELSE LET t1 == [t EXCEPT !.equity_history = Append(t.equity_history, current_value)]
             first == t1.equity_history[1]
         IN  IF Len(t1.equity_history) < 2 THEN [trigger |-> t1, result |-> "false"]
             ELSE IF first = 0 THEN [trigger |-> t1, result |-> "raise"]
             ELSE IF RGe(RDiv(R(first - current_value), R(first)), MaxDrawdown)
                  THEN [trigger |-> Activate(t1), result |-> "true"]
                  ELSE [trigger |-> t1, result |-> "false"]

DrawdownCheck(t, current_value) ==
    IF t.activated THEN [trigger |-> t, result |-> "true"]
    ELSE LET t1 == [t EXCEPT !.equity_history = Append(t.equity_history, current_value)]
             peak == MaxOfSeq(t1.equity_history)
         IN  IF Len(t1.equity_history) < 2 THEN [trigger |-> t1, result |-> "false"]
             ELSE IF peak = 0 THEN [trigger |-> t1, result |-> "raise"]
             ELSE IF RGe(RDiv(R(peak - current_value), R(peak)), MaxDrawdown)
                  THEN [trigger |-> Activate(t1), result |-> "true"]
                  ELSE [trigger |-> t1, result |-> "false"]

LossCheck(t, current_value, initial_cash) ==
    IF t.activated THEN [trigger |-> t, result |-> "true"]
    ELSE IF initial_cash - current_value >= MaxLoss
         THEN [trigger |-> Activate(t), result |-> "true"]
         ELSE [trigger |-> t, result |-> "false"]

\* timestamp: [minute |-> minute of the day, weekday |-> 0 (Monday) .. 6];
\* trading_days_only has its default, True.
TimeBasedCheck(t, timestamp) ==
    IF t.activated THEN [trigger |-> t, result |-> "true"]
    ELSE IF timestamp.minute < StartTime \/ timestamp.minute > EndTime
         THEN [trigger |-> Activate(t), result |-> "true"]
         ELSE IF timestamp.weekday >= 5
              THEN [trigger |-> Activate(t), result |-> "true"]
              ELSE [trigger |-> t, result |-> "false"]

TriggerNames == {"drawdown", "loss", "time"}

(***************************************************************************)
(* BacktestEngine (backtesting/core/engine.py).  The engine's triggers are *)
(* the callables trigger.check(portfolio, prices, now) of a drawdown and a *)
(* loss trigger, in that order.                                            *)
(***************************************************************************)
EngineTriggers == <<"drawdown", "loss">>

EngineTriggerCall(name, trigs, pf, prices) ==
    LET value == GetTotalValue(pf, prices)
    IN  IF name = "drawdown" THEN DrawdownCheck(trigs[name], value)
        ELSE LossCheck(trigs[name], value, pf.initial_cash)

\* check_kill_switch: the triggers in list order, stopping at the first
\* that returns True (or raises).
RECURSIVE CheckKillSwitch(_, _, _, _)
CheckKillSwitch(names, trigs, pf, prices) ==
    IF names = <<>> THEN [triggers |-> trigs, result |-> "false"]
    ELSE LET r == EngineTriggerCall(Head(names), trigs, pf, prices)
             trigs1 == [trigs EXCEPT ![Head(names)] = r.trigger]
         IN  IF r.result = "false"
             THEN CheckKillSwitch(Tail(names), trigs1, pf, prices)
             ELSE [triggers |-> trigs1, result |-> r.result]

\* The pending orders executed with no look at their limit price.
RECURSIVE ExecutePending_IgnoresLimit(_, _, _, _, _)
ExecutePending_IgnoresLimit(pf, pending, prices, when, log) ==
    IF pending = <<>> THEN [portfolio |-> pf, log |-> log]
    ELSE LET i == Head(pending)
             o == pf.orders[i]
         IN  IF o.symbol \notin DOMAIN prices
             THEN ExecutePending_IgnoresLimit(pf, Tail(pending), prices, when, log)
             ELSE LET execution_price == prices[o.symbol]
                  IN  ExecutePending_IgnoresLimit(
                          ExecuteOrder(pf, i, execution_price, when),
                          Tail(pending), prices, when,
                          Append(log, [bar |-> when, order |-> i,
                                       price |-> execution_price]))

\* The loop over portfolio.get_pending_orders() of one bar: the portfolio
\* after it and the execute_order calls it made.
RECURSIVE ExecutePending(_, _, _, _, _)
ExecutePending(pf, pending, prices, when, log) ==
    IF pending = <<>> THEN [portfolio |-> pf, log |-> log]
    ELSE LET i == Head(pending)
             o == pf.orders[i]
         IN  IF o.symbol \notin DOMAIN prices
             THEN ExecutePending(pf, Tail(pending), prices, when, log)
             ELSE LET execution_price == prices[o.symbol]
                  IN  IF /\ ~IsNone(o.price)
                         /\ \/ o.side = "buy" /\ execution_price > Val(o.price)
                            \/ o.side = "sell" /\ execution_price < Val(o.price)
                      THEN ExecutePending(pf, Tail(pending), prices, when, log)
                      ELSE ExecutePending(
                               ExecuteOrder(pf, i, execution_price, when),
                               Tail(pending), prices, when,
                               Append(log, [bar |-> when, order |-> i,
                                            price |-> execution_price]))

\* The strategy called before the pending orders are executed.
StepAfter_StrategyFirst(step) ==
    CASE step = "kill" -> "strategy"
      [] step = "strategy" -> "exec"
      [] step = "exec" -> "equity"
      [] step = "equity" -> "bar"

\* The equity point recorded before the pending orders are executed.
StepAfter_EquityFirst(step) ==
    CASE step = "kill" -> "equity"
      [] step = "equity" -> "exec"
      [] step = "exec" -> "strategy"
      [] step = "strategy" -> "bar"

\* The loop body without the call of the strategy.
StepAfter_SkipsStrategy(step) ==
    CASE step = "kill" -> "exec"
      [] step = "exec" -> "equity"
      [] step = "equity" -> "bar"
      [] step = "strategy" -> "bar"

\* The order of the steps of the loop body; "bar" is the loop head.
StepAfter(step) ==
    CASE step = "kill" -> "exec"
      [] step = "exec" -> "equity"
      [] step = "equity" -> "strategy"
      [] step = "strategy" -> "bar"

\* The loop not left when the check returned True.
AfterKillSwitch_NoBreak(result) ==
    IF result = "raise" THEN "raised" ELSE "exec"

\* Where run() goes after check_kill_switch: it leaves the loop when the
\* check returned True, and ends in the exception when a trigger raised.
AfterKillSwitch(result) ==
    IF result = "true" THEN "finish"
    ELSE IF result = "raise" THEN "raised"
    ELSE StepAfter("kill")

\* What the strategy of the run may ask for in one callback.
Requests(kind) ==
    IF kind = "market"
    THEN [symbol : {"A"}, quantity : Quantities, side : {"buy", "sell"}, price : {None}]
         \cup [symbol : {"B"}, quantity : {1}, side : {"buy", "sell"}, price : {None}]
    ELSE [symbol : {"A"}, quantity : Quantities, side : {"buy", "sell"},
          price : {None} \cup {Some(l) : l \in LimitPrices}]

RECURSIVE SeqsUpTo(_, _)
SeqsUpTo(S, n) ==
    IF n = 0 THEN {<<>>}
    ELSE LET shorter == SeqsUpTo(S, n - 1)
         IN  shorter \cup {Append(q, x) : q \in {r \in shorter : Len(r) = n - 1}, x \in S}

RECURSIVE PlaceAll(_, _, _)
PlaceAll(pf, reqs, when) ==
    IF reqs = <<>> THEN pf
    ELSE PlaceAll(PlaceOrder(pf, Head(reqs).symbol, Head(reqs).quantity,
                             Head(reqs).side, Head(reqs).price, when),
                  Tail(reqs), when)

ClosesOf(symbol) == IF symbol = "A" THEN Closes ELSE {2}

(***************************************************************************)
(* ATRCalculator (fantastic_palm_tree/indicators/atr.py).  The true ranges *)
(* of integer bars are integers; the ATR is their rational mean.           *)
(***************************************************************************)
AtrPeriod == 3

Max2(a, b) == IF a >= b THEN a ELSE b

TrueRange(high, low, prev_close) ==
    Max2(high - low, Max2(Abs(high - prev_close), Abs(low - prev_close)))

\* The oldest true range dropped one bar early, when the window gets full.
AtrAddBar_EvictsEarly(true_ranges, high, low, prev_close) ==
    LET appended == Append(true_ranges, TrueRange(high, low, prev_close))
    IN  IF Len(appended) >= AtrPeriod THEN Tail(appended) ELSE appended

AtrAddBar(true_ranges, high, low, prev_close) ==
    LET appended == Append(true_ranges, TrueRange(high, low, prev_close))
    IN  IF Len(appended) > AtrPeriod THEN Tail(appended) ELSE appended

GetAtr(true_ranges) ==
    IF true_ranges = <<>> THEN R(0)
    ELSE RDiv(R(SumSeq(true_ranges)), R(Len(true_ranges)))

HasEnoughSamples(true_ranges, min_samples) == Len(true_ranges) >= min_samples

(***************************************************************************)
(* PriceBuffer (fantastic_palm_tree/strategy/atr_breakout.py).             *)
(***************************************************************************)
LookbackPeriod == 2
BufferExtra == 10

NewPriceBuffer(size) == [size |-> size, highs |-> <<>>, lows |-> <<>>, closes |-> <<>>]

\* The oldest high and low evicted, the closes left to grow.
BufferAddBar_KeepsCloses(buf, high, low, close) ==
    LET highs == Append(buf.highs, high)
        lows == Append(buf.lows, low)
        closes == Append(buf.closes, close)
    IN  IF Len(highs) > buf.size
        THEN [buf EXCEPT !.highs = Tail(highs), !.lows = Tail(lows), !.closes = closes]
        ELSE [buf EXCEPT !.highs = highs, !.lows = lows, !.closes = closes]

BufferAddBar(buf, high, low, close) ==
    LET highs == Append(buf.highs, high)
        lows == Append(buf.lows, low)
        closes == Append(buf.closes, close)
    IN  IF Len(highs) > buf.size
        THEN [buf EXCEPT !.highs = Tail(highs), !.lows = Tail(lows), !.closes = Tail(closes)]
        ELSE [buf EXCEPT !.highs = highs, !.lows = lows, !.closes = closes]

\* xs[-lookback:] for lookback >= 0 (xs[-0:] is all of xs)
LastOf(xs, lookback) ==
    IF lookback = 0 \/ lookback >= Len(xs) THEN xs
    ELSE SubSeq(xs, Len(xs) - lookback + 1, Len(xs))

RECURSIVE MinOfSeq(_)
MinOfSeq(s) ==
    IF Len(s) = 1 THEN s[1]
    ELSE LET m == MinOfSeq(Tail(s)) IN IF s[1] <= m THEN s[1] ELSE m

\* Called with a buffer that is not empty (has_enough_data is checked first).
GetHighestHigh(buf, lookback) == MaxOfSeq(LastOf(buf.highs, lookback))
GetLowestLow(buf, lookback) == MinOfSeq(LastOf(buf.lows, lookback))

HasEnoughData(buf, required) == Len(buf.highs) >= required

(***************************************************************************)
(* The strategy's configuration: ATRBreakoutConfig with its defaults but   *)
(* for atr_period and lookback_period, and the fees of the constructor.    *)
(***************************************************************************)
BreakoutMultiplier == 2
MinAtrThreshold == <<1, 100>>
BreakoutDirection == "both"
PositionSize == 1000
MaxRiskPerTrade == <<1, 100>>
StopLossAtrMultiplier == 2
DynamicAtrMinSamples == 1
CommissionRate == <<1, 1000>>
Slippage == <<1, 100>>

(***************************************************************************)
(* TrailingStopEngine (fantastic_palm_tree/risk/trailing.py).  The         *)
(* trailing config is enabled and of type "atr", as the defaults set it.   *)
(***************************************************************************)
\* The current ATR used whatever the configuration.
ComputeDistance_AlwaysCurrent(use_dynamic_atr, min_samples, true_ranges, position) ==
    GetAtr(true_ranges)

ComputeDistance(use_dynamic_atr, min_samples, true_ranges, position) ==
    IF use_dynamic_atr
    THEN IF HasEnoughSamples(true_ranges, min_samples)
         THEN GetAtr(true_ranges)
         ELSE position.entry_atr
    ELSE position.entry_atr

\* The stop always moved to the new level.
UpdateTrailingStop_NoRatchet(position, current_price, distance) ==
    IF RLe(distance, R(0)) THEN position
    ELSE IF position.is_long
         THEN [position EXCEPT !.stop_price = Some(RSub(R(current_price), distance))]
         ELSE [position EXCEPT !.stop_price = Some(RAdd(R(current_price), distance))]

\* update_trailing_stop: the position after the call.
UpdateTrailingStop(position, current_price, distance) ==
    IF RLe(distance, R(0)) THEN position
    ELSE IF position.is_long
         THEN LET new_stop == RSub(R(current_price), distance)
              IN  IF IsNone(position.stop_price) \/ RGt(new_stop, Val(position.stop_price))
                  THEN [position EXCEPT !.stop_price = Some(new_stop)]
                  ELSE position
         ELSE LET new_stop == RAdd(R(current_price), distance)
              IN  IF IsNone(position.stop_price) \/ RLt(new_stop, Val(position.stop_price))
                  THEN [position EXCEPT !.stop_price = Some(new_stop)]
                  ELSE position

\* The stop counted as hit only when the bar went through it.
StopHit_Strict(position, bar_high, bar_low) ==
    IF IsNone(position.stop_price) THEN FALSE
    ELSE IF position.is_long THEN RLt(R(bar_low), Val(position.stop_price))
    ELSE RGt(R(bar_high), Val(position.stop_price))

StopHit(position, bar_high, bar_low) ==
    IF IsNone(position.stop_price) THEN FALSE
    ELSE IF position.is_long THEN RLe(R(bar_low), Val(position.stop_price))
    ELSE RGe(R(bar_high), Val(position.stop_price))

(***************************************************************************)
(* ATRBreakoutStrategy (fantastic_palm_tree/strategy/atr_breakout.py).     *)
(* A strategy is a record; position is None or Some(TradePosition).  The   *)
(* field id of a position tells the position objects apart: it is the      *)
(* number of positions created up to and including it.                     *)
(***************************************************************************)
NewStrategy(use_dynamic_atr, lookback_period) ==
    [use_dynamic_atr |-> use_dynamic_atr,
     lookback_period |-> lookback_period,
     true_ranges |-> <<>>,
     price_buffer |-> NewPriceBuffer(lookback_period + BufferExtra),
     position |-> None, realized_pnl |-> R(0), bar_count |-> 0, created |-> 0]

\* The length of the price buffer not looked at.
ShouldCheckBreakouts_AtrOnly(st) ==
    HasEnoughSamples(st.true_ranges, AtrPeriod)

ShouldCheckBreakouts(st) ==
    /\ HasEnoughData(st.price_buffer, st.lookback_period)
    /\ HasEnoughSamples(st.true_ranges, AtrPeriod)

\* _detect_breakout: None, or Some of the direction and the entry price.
DetectBreakout(st, high, low, close, atr) ==
    IF RLt(atr, MinAtrThreshold) THEN None
    ELSE LET recent_high == GetHighestHigh(st.price_buffer, st.lookback_period - 1)
             recent_low == GetLowestLow(st.price_buffer, st.lookback_period - 1)
             long_threshold == RAdd(R(recent_high), RMul(atr, R(BreakoutMultiplier)))
             short_threshold == RSub(R(recent_low), RMul(atr, R(BreakoutMultiplier)))
         IN  IF BreakoutDirection \in {"long", "both"} /\ RGt(R(high), long_threshold)
             THEN Some([direction |-> "long", entry_price |-> long_threshold])
             ELSE IF BreakoutDirection \in {"short", "both"} /\ RLt(R(low), short_threshold)
             THEN Some([direction |-> "short", entry_price |-> short_threshold])
             ELSE None

CalculatePositionSize(entry_price, atr) ==
    LET stop_distance == RMul(atr, R(StopLossAtrMultiplier))
        max_risk_amount == RMul(R(PositionSize), MaxRiskPerTrade)
        risk_based_size == IF RGt(stop_distance, R(0))
                           THEN RDiv(max_risk_amount, stop_distance)
                           ELSE R(PositionSize)
    IN  RMin(R(PositionSize), risk_based_size)

\* enter_position goes on only when no position is open.
\* An entry accepted whatever the position.
MayEnter_Always(st) == TRUE

MayEnter(st) == IsNone(st.position)

\* The commission charged before the open position is looked at.
EnterPosition_ChargesFirst(st, price, size, is_long) ==
    LET effective_price == IF is_long THEN RAdd(price, Slippage) ELSE RSub(price, Slippage)
        commission == RAbs(RMul(RMul(size, effective_price), CommissionRate))
        charged == [st EXCEPT !.realized_pnl = RSub(st.realized_pnl, commission)]
    IN  IF ~IsNone(st.position)
        THEN [strategy |-> charged, raised |-> "PositionExistsError"]
        ELSE [strategy |-> [charged EXCEPT !.position =
                               Some([entry_price |-> effective_price, size |-> size,
                                     entry_atr |-> GetAtr(st.true_ranges),
                                     is_long |-> is_long, timestamp |-> st.bar_count,
                                     stop_price |-> Some(
                                         IF is_long
                                         THEN RSub(effective_price,
                                                   RMul(GetAtr(st.true_ranges),
                                                        R(StopLossAtrMultiplier)))
                                         ELSE RAdd(effective_price,
                                                   RMul(GetAtr(st.true_ranges),
                                                        R(StopLossAtrMultiplier)))),
                                     id |-> st.created + 1]),
                             !.created = st.created + 1],
              raised |-> "no"]

\* enter_position: the strategy after the call and whether it raised.
EnterPosition(st, price, size, is_long) ==
    IF ~MayEnter(st) THEN [strategy |-> st, raised |-> "PositionExistsError"]
    ELSE LET entry_atr == GetAtr(st.true_ranges)
             effective_price == IF is_long THEN RAdd(price, Slippage) ELSE RSub(price, Slippage)
             commission == RAbs(RMul(RMul(size, effective_price), CommissionRate))
             stop_distance == RMul(entry_atr, R(StopLossAtrMultiplier))
             position == [entry_price |-> effective_price, size |-> size,
                          entry_atr |-> entry_atr, is_long |-> is_long,
                          timestamp |-> st.bar_count,
                          stop_price |-> Some(IF is_long
                                              THEN RSub(effective_price, stop_distance)
                                              ELSE RAdd(effective_price, stop_distance)),
                          id |-> st.created + 1]
         IN  [strategy |-> [st EXCEPT !.position = Some(position),
                                      !.realized_pnl = RSub(st.realized_pnl, commission),
                                      !.created = st.created + 1],
              raised |-> "no"]

ComputeRMultiple(pnl, position) ==
    IF RLe(position.entry_atr, R(0)) THEN R(0)
    ELSE LET initial_risk == RMul(RMul(position.size, position.entry_atr),
                                  R(StopLossAtrMultiplier))
         IN  IF RLe(initial_risk, R(0)) THEN R(0) ELSE RDiv(pnl, initial_risk)

\* exit_position: the strategy after the call, the ExitResult, whether it raised.
ExitPosition(st, price, reason) ==
    IF IsNone(st.position)
    THEN [strategy |-> st, exit_result |-> None, raised |-> "NoPositionError"]
    ELSE LET position == Val(st.position)
             effective_price == IF position.is_long THEN RSub(price, Slippage)
                                ELSE RAdd(price, Slippage)
             commission == RAbs(RMul(RMul(position.size, effective_price), CommissionRate))
             position_pnl == IF position.is_long
                             THEN RMul(position.size, RSub(effective_price, position.entry_price))
                             ELSE RMul(position.size, RSub(position.entry_price, effective_price))
             total == RAdd(st.realized_pnl, RSub(position_pnl, commission))
         IN  [strategy |-> [st EXCEPT !.position = None, !.realized_pnl = total],
              exit_result |-> Some([pnl |-> position_pnl,
                                    r_multiple |-> ComputeRMultiple(position_pnl, position),
                                    total_pnl |-> total, commission |-> commission,
                                    reason |-> reason]),
              raised |-> "no"]

\* The value of a statement is computed once and the statements after it
\* go on from it: The({rest : x \in {value}}) is rest with x that value.
The(S) == CHOOSE r \in S : TRUE

\* The breakout looked for on every bar, a position held or not.
BarIntake_SignalsAlways(st, high, low, close, prev_close) ==
    LET true_ranges == AtrAddBar(st.true_ranges, high, low, prev_close)
        st1 == [st EXCEPT !.bar_count = st.bar_count + 1, !.true_ranges = true_ranges]
    IN  [strategy |-> [st1 EXCEPT !.price_buffer =
                                      BufferAddBar(st.price_buffer, high, low, close)],
         breakout_signal |-> IF ShouldCheckBreakouts(st1)
                             THEN DetectBreakout(st1, high, low, close, GetAtr(true_ranges))
                             ELSE None]

\* process_bar up to the price buffer's update: the strategy then, and the
\* breakout signal (None, or Some of the direction and the entry price).
BarIntake(st, high, low, close, prev_close) ==
    LET true_ranges == AtrAddBar(st.true_ranges, high, low, prev_close)
        st1 == [st EXCEPT !.bar_count = st.bar_count + 1, !.true_ranges = true_ranges]
    IN  [strategy |-> [st1 EXCEPT !.price_buffer =
                                      BufferAddBar(st.price_buffer, high, low, close)],
         breakout_signal |-> IF IsNone(st.position) /\ ShouldCheckBreakouts(st1)
                             THEN DetectBreakout(st1, high, low, close, GetAtr(true_ranges))
                             ELSE None]

\* process_bar's position management: the trailing stop is updated, and the
\* position is closed when the bar hit the stop.  update is what
\* update_trailing_stop returned, distance the distance it computed.
ManagePosition(st, high, low, close) ==
    IF IsNone(st.position)
    THEN [strategy |-> st, stop_hit |-> FALSE, exit_result |-> None,
          update |-> None, distance |-> None]
    ELSE The({
         The({
         The({
             [strategy |-> exited.strategy,
              stop_hit |-> ~IsNone(exited.exit_result),
              exit_result |-> exited.exit_result,
              update |-> IF RLe(distance, R(0)) THEN None ELSE trailed.stop_price,
              distance |-> Some(distance)] :
         exited \in {IF StopHit(trailed, high, low)
                     THEN ExitPosition([st EXCEPT !.position = Some(trailed)],
                                       IF Val(trailed.stop_price) # R(0)
                                       THEN Val(trailed.stop_price) ELSE R(close),
                                       "trailing_stop")
                     ELSE [strategy |-> [st EXCEPT !.position = Some(trailed)],
                           exit_result |-> None, raised |-> "no"]}}) :
         trailed \in {UpdateTrailingStop(Val(st.position), close, distance)}}) :
         distance \in {ComputeDistance(st.use_dynamic_atr, DynamicAtrMinSamples,
                                       st.true_ranges, Val(st.position))}})

\* process_bar's entry on the breakout signal.
ExecuteBreakout(st, breakout_signal, current_atr) ==
    IF ~IsNone(breakout_signal) /\ IsNone(st.position)
    THEN The({IF RGt(position_size, R(0))
              THEN EnterPosition(st, Val(breakout_signal).entry_price, position_size,
                                 Val(breakout_signal).direction = "long").strategy
              ELSE st :
         position_size \in {CalculatePositionSize(Val(breakout_signal).entry_price,
                                                  current_atr)}})
    ELSE st

\* process_bar: the strategy after the call, the BarProcessResult, and the
\* trailing distance the call used (None when it managed no position).
ProcessBar(st, high, low, close, prev_close) ==
    The({
    The({
    The({
    The({
        [strategy |-> entered,
         result |-> [atr |-> current_atr, stop_hit |-> managed.stop_hit,
                     exit_result |-> managed.exit_result,
                     stop_price |-> IF ~IsNone(entered.position) /\ ~managed.stop_hit
                                    THEN Val(entered.position).stop_price
                                    ELSE managed.update],
         distance |-> managed.distance] :
    entered \in {ExecuteBreakout(managed.strategy, intake.breakout_signal, current_atr)}}) :
    managed \in {ManagePosition(intake.strategy, high, low, close)}}) :
    current_atr \in {GetAtr(intake.strategy.true_ranges)}}) :
    intake \in {BarIntake(st, high, low, close, prev_close)}})

(***************************************************************************)
(* EnhancedStrategy (fantastic_palm_tree/strategy/enhanced.py): the ATR    *)
(* calculator and the trailing stop engine with manual entries and exits.  *)
(* A position is entered without a stop; process_bar sets and trails it.   *)
(* The fees are those given to set_fees.                                   *)
(***************************************************************************)
NewEnhanced(use_dynamic_atr, min_samples) ==
    [use_dynamic_atr |-> use_dynamic_atr, dynamic_atr_min_samples |-> min_samples,
     true_ranges |-> <<>>, position |-> None, realized_pnl |-> R(0), created |-> 0]

EnhancedEnterPosition(st, price, size, is_long) ==
    IF ~IsNone(st.position) THEN [strategy |-> st, raised |-> "PositionExistsError"]
    ELSE LET effective_price == IF is_long THEN RAdd(price, Slippage) ELSE RSub(price, Slippage)
             commission == RAbs(RMul(RMul(size, effective_price), CommissionRate))
         IN  [strategy |-> [st EXCEPT
                  !.position = Some([entry_price |-> effective_price, size |-> size,
                                     entry_atr |-> GetAtr(st.true_ranges),
                                     is_long |-> is_long, timestamp |-> 0,
                                     stop_price |-> None, id |-> st.created + 1]),
                  !.realized_pnl = RSub(st.realized_pnl, commission),
                  !.created = st.created + 1],
              raised |-> "no"]

EnhancedComputeRMultiple(position_pnl, position) ==
    IF position.size = R(0) THEN R(0)
    ELSE LET risk_per_share == IF RGt(position.entry_atr, R(0)) THEN position.entry_atr
                               ELSE R(1)
         IN  RDiv(RDiv(position_pnl, position.size), risk_per_share)

EnhancedExitPosition(st, price, reason) ==
    IF IsNone(st.position)
    THEN [strategy |-> st, exit_result |-> None, raised |-> "NoPositionError"]
    ELSE LET position == Val(st.position)
             effective_price == IF position.is_long THEN RSub(price, Slippage)
                                ELSE RAdd(price, Slippage)
             commission == RAbs(RMul(RMul(position.size, effective_price), CommissionRate))
             position_pnl == IF position.is_long
                             THEN RMul(position.size, RSub(effective_price, position.entry_price))
                             ELSE RMul(position.size, RSub(position.entry_price, effective_price))
             total == RAdd(st.realized_pnl, RSub(position_pnl, commission))
         IN  [strategy |-> [st EXCEPT !.position = None, !.realized_pnl = total],
              exit_result |-> Some([pnl |-> position_pnl,
                                    r_multiple |-> EnhancedComputeRMultiple(position_pnl,
                                                                            position),
                                    total_pnl |-> total, commission |-> commission,
                                    reason |-> reason]),
              raised |-> "no"]

\* process_bar: the strategy after the call, the BarProcessResult, the
\* trailing distance the call used and the stop the position had when
\* stop_hit looked at it (both None when no position was open).
EnhancedProcessBar(st, high, low, close, prev_close) ==
    The({
        IF IsNone(st.position)
        THEN [strategy |-> st1,
              result |-> [atr |-> GetAtr(st1.true_ranges), stop_hit |-> FALSE,
                          exit_result |-> None, stop_price |-> None],
              distance |-> None, stop |-> None]
        ELSE The({
             The({
             The({
                 [strategy |-> exited.strategy,
                  result |-> [atr |-> GetAtr(st1.true_ranges),
                              stop_hit |-> ~IsNone(exited.exit_result),
                              exit_result |-> exited.exit_result,
                              stop_price |-> IF RLe(distance, R(0)) THEN None
                                             ELSE trailed.stop_price],
                  distance |-> Some(distance), stop |-> trailed.stop_price] :
             exited \in {IF StopHit(trailed, high, low)
                         THEN EnhancedExitPosition([st1 EXCEPT !.position = Some(trailed)],
                                                   Val(trailed.stop_price), "stop_loss")
                         ELSE [strategy |-> [st1 EXCEPT !.position = Some(trailed)],
                               exit_result |-> None, raised |-> "no"]}}) :
             trailed \in {UpdateTrailingStop(Val(st.position), close, distance)}}) :
             distance \in {ComputeDistance(st.use_dynamic_atr, st.dynamic_atr_min_samples,
                                           st1.true_ranges, Val(st.position))}}) :
    st1 \in {[st EXCEPT !.true_ranges = AtrAddBar(st.true_ranges, high, low, prev_close)]}})

(***************************************************************************)
(* ParameterOptimizer (backtesting/sweep/optimizer.py).  A parameter point *)
(* is [quantity, fails]: the strategy built from it buys quantity shares   *)
(* of "A" in its first on_data callback, and fails names the step of the   *)
(* evaluation that raises an exception for it ("none" when none does).     *)
(* max_workers = 1 is the mode "sequential", any other value "parallel".   *)
(***************************************************************************)
NumPoints == 2

Stages == {"construct", "set_params", "run", "metrics", "objective"}

Points == [quantity : {0, 2}, fails : {"none"}] \cup [quantity : {0}, fails : Stages]

NoSweep == [mode |-> "none", data |-> None, points |-> <<>>, todo |-> {},
            current |-> 0, results |-> <<>>, status |-> "none"]

\* optimizer.optimize(data, parameter_space) about to evaluate its points
Sweeps ==
    {[mode |-> m, data |-> Some(dt), points |-> ps, todo |-> 1..NumPoints,
      current |-> 0, results |-> <<>>, status |-> "running"] :
        m \in {"sequential", "parallel"},
        dt \in [1..NumBars -> Closes],
        ps \in [1..NumPoints -> Points]}

\* The point evaluated next: in list order when sequential, and in any
\* order when the points are tasks of the process pool.
NextPoints(sw) ==
    IF sw.mode = "sequential"
    THEN {i \in sw.todo : \A j \in sw.todo : i <= j}
    ELSE sw.todo

\* on_data of the strategy of a parameter point
PointOrders(point, bar) ==
    IF bar = 0 /\ point.quantity > 0
    THEN <<[symbol |-> "A", quantity |-> point.quantity, side |-> "buy", price |-> None]>>
    ELSE <<>>

\* objective_function(MetricsCalculator.calculate(results)): the gain of the
\* run, 0 when the equity curve is empty.
Objective(pf) ==
    IF pf.equity_curve = <<>> THEN 0
    ELSE pf.equity_curve[Len(pf.equity_curve)].value - pf.initial_cash

SuccessResult(i, pf) ==
    [point |-> i, success |-> TRUE, objective |-> Some(Objective(pf)),
     results |-> Some(pf.equity_curve)]

FailureResult(i) ==
    [point |-> i, success |-> FALSE, objective |-> <<"-inf">>, results |-> None]

\* The exception of a point leaving _evaluate_single_combination.
AfterFailure_Propagates(sw, i) ==
    [sw EXCEPT !.current = 0, !.todo = {}, !.status = "aborted"]

\* except Exception: the failed point's result is returned and collected.
AfterFailure(sw, i) ==
    [sw EXCEPT !.current = 0, !.results = Append(sw.results, FailureResult(i))]

\* OptimizationResults._successful_results
SuccessfulResults(results) == SelectSeq(results, LAMBDA r : r.success)

\* get_best_result: max() over the successful results by objective_value,
\* which returns the first of the results with the greatest value.
GetBestResult(results) ==
    LET successful == SuccessfulResults(results)
    IN  IF successful = <<>> THEN None
        ELSE Some(successful[
                 CHOOSE i \in 1..Len(successful) :
                    /\ \A j \in 1..Len(successful) :
                          Val(successful[j].objective) <= Val(successful[i].objective)
                    /\ \A j \in 1..(i - 1) :
                          Val(successful[j].objective) < Val(successful[i].objective)])

(***************************************************************************)
(* KillSwitchManager (backtesting/killswitch/manager.py).  triggers and    *)
(* activated_triggers are lists of trigger names; the triggers themselves  *)
(* are in the variable triggers.  A check is given the portfolio's total   *)
(* value, its initial cash and the timestamp.                              *)
(***************************************************************************)
NewManager == [triggers |-> <<>>, activated_triggers |-> <<>>, is_active |-> FALSE]

ManagerAddTrigger(mgr, name) == [mgr EXCEPT !.triggers = Append(mgr.triggers, name)]

\* The registered activation callbacks, in registration order: the first
\* raises when it is called, the second returns.
Callbacks == <<"raises", "returns">>

InSeq(s, x) == \E i \in 1..Len(s) : s[i] = x

\* trigger.check(portfolio, current_prices, timestamp)
ManagerTriggerCall(name, t, input) ==
    IF name = "drawdown" THEN DrawdownCheck(t, input.value)
    ELSE IF name = "loss" THEN LossCheck(t, input.value, input.initial_cash)
    ELSE TimeBasedCheck(t, input.timestamp)

\* Every trigger that returns True taken as newly activated.
IsNewActivation_Always(mgr, name) == TRUE

\* trigger not in self.activated_triggers
IsNewActivation(mgr, name) == ~InSeq(mgr.activated_triggers, name)

\* _on_trigger_activated: the callbacks it calls, in order, each with the
\* trigger; the exception of a callback is caught and the next one is called.
OnTriggerActivated(name) == [i \in 1..Len(Callbacks) |-> <<Callbacks[i], name>>]

\* The loop left at the first trigger that returned True.
LoopRest_StopAtFirst(names, result) == IF result = "true" THEN <<>> ELSE Tail(names)

\* The triggers the for loop of check_triggers still goes through after one
\* of them returned: there is no break.
LoopRest(names, result) == Tail(names)

\* The for loop of check_triggers over the triggers names.  acc holds the
\* manager and the triggers so far, the triggers evaluated, those that
\* returned True, the callbacks invoked, and whether a check raised (the
\* exception ends the loop and the call).
RECURSIVE ManagerLoop(_, _, _)
ManagerLoop(names, acc, input) ==
    IF names = <<>> THEN acc
    ELSE The({
         The({
             IF r.result = "raise" THEN [checked EXCEPT !.raised = TRUE]
             ELSE IF r.result = "true"
             THEN The({ManagerLoop(LoopRest(names, r.result), activated, input) :
                       activated \in {
                           IF IsNewActivation(checked.manager, Head(names))
                           THEN [checked EXCEPT
                                   !.tripped = checked.tripped \cup {Head(names)},
                                   !.manager.activated_triggers =
                                       Append(checked.manager.activated_triggers, Head(names)),
                                   !.invoked = checked.invoked \o OnTriggerActivated(Head(names))]
                           ELSE [checked EXCEPT
                                   !.tripped = checked.tripped \cup {Head(names)}]}})
             ELSE ManagerLoop(LoopRest(names, r.result), checked, input) :
         checked \in {[acc EXCEPT !.triggers[Head(names)] = r.trigger,
                                  !.evaluated = Append(acc.evaluated, Head(names))]}}) :
         r \in {ManagerTriggerCall(Head(names), acc.triggers[Head(names)], input)}})

\* check_triggers: the manager and triggers after the call, what it returned
\* ("true", "false", or "raise" when a trigger's check raised), and what
\* the call did.
ManagerCheckTriggers(mgr, trigs, input) ==
    IF mgr.is_active
    THEN [manager |-> mgr, triggers |-> trigs, result |-> "true",
          evaluated |-> <<>>, tripped |-> {}, invoked |-> <<>>]
    ELSE The({
         IF a.raised
         THEN [manager |-> a.manager, triggers |-> a.triggers, result |-> "raise",
               evaluated |-> a.evaluated, tripped |-> a.tripped, invoked |-> a.invoked]
         ELSE [manager |-> [a.manager EXCEPT
                              !.is_active = Len(a.manager.activated_triggers) > 0],
               triggers |-> a.triggers,
               result |-> IF Len(a.manager.activated_triggers) > 0 THEN "true" ELSE "false",
               evaluated |-> a.evaluated, tripped |-> a.tripped, invoked |-> a.invoked] :
         a \in {ManagerLoop(mgr.triggers,
                            [manager |-> mgr, triggers |-> trigs, evaluated |-> <<>>,
                             tripped |-> {}, invoked |-> <<>>, raised |-> FALSE],
                            input)}})

\* reset_all_triggers
ManagerResetAll(mgr, trigs) ==
    [manager |-> [mgr EXCEPT !.activated_triggers = <<>>, !.is_active = FALSE],
     triggers |-> [n \in DOMAIN trigs |->
                      IF InSeq(mgr.triggers, n) THEN TriggerReset(trigs[n]) ELSE trigs[n]]]

(***************************************************************************)
(* The metrics pipeline (backtesting/metrics).  A processor is a record    *)
(* with its class, its name, the id of the object, and the fields of its   *)
(* class.  Floats are exact rationals; float('inf') is <<1, 0>>.           *)
(***************************************************************************)
Inf == <<1, 0>>

\* EquityCurveProcessor()
NewEquityCurveProcessor ==
    [class |-> "EquityCurveProcessor", name |-> "equity_curve", id |-> 0,
     initialized |-> FALSE, equity_data |-> <<>>, initial_cash |-> 0]

\* DrawdownProcessor()
NewDrawdownProcessor ==
    [class |-> "DrawdownProcessor", name |-> "drawdown", id |-> 0,
     initialized |-> FALSE, equity_values |-> <<>>, current_peak |-> 0,
     max_drawdown |-> R(0), max_drawdown_duration |-> 0,
     current_drawdown_start |-> None, current_drawdown_duration |-> 0]

\* TradeListProcessor()
NewTradeListProcessor ==
    [class |-> "TradeListProcessor", name |-> "trade_list", id |-> 0,
     initialized |-> FALSE, trades |-> <<>>, trade_count |-> 0,
     winning_trades |-> 0, losing_trades |-> 0, total_pnl |-> 0,
     gross_wins |-> 0, gross_losses |-> 0]

\* A newly constructed processor of the class of p, under p's name.
Constructed(p) ==
    CASE p.class = "EquityCurveProcessor" ->
            [NewEquityCurveProcessor EXCEPT !.name = p.name, !.id = p.id]
      [] p.class = "DrawdownProcessor" ->
            [NewDrawdownProcessor EXCEPT !.name = p.name, !.id = p.id]
      [] p.class = "TradeListProcessor" ->
            [NewTradeListProcessor EXCEPT !.name = p.name, !.id = p.id]

\* initialize(initial_cash) of the three classes.  The timestamp taken from
\* datetime.now() enters no metric and is left out.
ProcessorInitialize(p, initial_cash) ==
    CASE p.class = "EquityCurveProcessor" ->
            [p EXCEPT !.initial_cash = initial_cash,
                      !.equity_data = <<initial_cash>>,
                      !.initialized = TRUE]
      [] p.class = "DrawdownProcessor" ->
            [p EXCEPT !.current_peak = initial_cash,
                      !.equity_values = <<initial_cash>>,
                      !.initialized = TRUE]
      [] p.class = "TradeListProcessor" ->
            [p EXCEPT !.trades = <<>>, !.trade_count = 0, !.winning_trades = 0,
                      !.losing_trades = 0, !.total_pnl = 0, !.gross_wins = 0,
                      !.gross_losses = 0, !.initialized = TRUE]

\* EquityCurveProcessor.process_bar
EquityProcessBar(p, timestamp, portfolio_value) ==
    IF ~p.initialized
    THEN [processor |-> p, raised |-> "EquityCurveProcessor not initialized"]
    ELSE [processor |-> [p EXCEPT !.equity_data = Append(@, portfolio_value)],
          raised |-> "no"]

\* DrawdownProcessor.process_bar
DrawdownProcessBar(p, timestamp, portfolio_value) ==
    IF ~p.initialized
    THEN [processor |-> p, raised |-> "DrawdownProcessor not initialized"]
    ELSE LET p1 == [p EXCEPT !.equity_values = Append(@, portfolio_value)]
         IN  IF portfolio_value > p1.current_peak
             THEN [processor |->
                      IF IsNone(p1.current_drawdown_start)
                      THEN [p1 EXCEPT !.current_peak = portfolio_value]
                      ELSE [p1 EXCEPT !.current_peak = portfolio_value,
                                      !.max_drawdown_duration =
                                          Max2(@, p1.current_drawdown_duration),
                                      !.current_drawdown_start = None,
                                      !.current_drawdown_duration = 0],
                   raised |-> "no"]
             ELSE IF p1.current_peak = 0
             THEN [processor |-> p1, raised |-> "ZeroDivisionError"]
             ELSE LET current_drawdown == RDiv(R(portfolio_value - p1.current_peak),
                                               R(p1.current_peak))
                      p2 == IF RLt(current_drawdown, p1.max_drawdown)
                            THEN [p1 EXCEPT !.max_drawdown = current_drawdown]
                            ELSE p1
                  IN  [processor |->
                          IF IsNone(p2.current_drawdown_start)
                          THEN [p2 EXCEPT !.current_drawdown_start = Some(timestamp),
                                          !.current_drawdown_duration = 1]
                          ELSE [p2 EXCEPT !.current_drawdown_duration = @ + 1],
                       raised |-> "no"]

\* TradeListProcessor.process_trade
TradeProcessTrade(p, trade) ==
    IF ~p.initialized
    THEN [processor |-> p, raised |-> "TradeListProcessor not initialized"]
    ELSE [processor |->
             [p EXCEPT !.trades = Append(@, [side |-> trade.side, pnl |-> trade.pnl,
                                             trade_id |-> p.trade_count]),
                       !.trade_count = @ + 1,
                       !.total_pnl = @ + trade.pnl,
                       !.winning_trades = IF trade.pnl > 0 THEN @ + 1 ELSE @,
                       !.gross_wins = IF trade.pnl > 0 THEN @ + trade.pnl ELSE @,
                       !.losing_trades = IF trade.pnl < 0 THEN @ + 1 ELSE @,
                       !.gross_losses = IF trade.pnl < 0 THEN @ + Abs(trade.pnl) ELSE @],
          raised |-> "no"]

\* processor.process_bar(...) or processor.process_trade(...): an event is a
\* bar (timestamp, portfolio_value) or a trade.  The equity and drawdown
\* processors pass on a trade, the trade list passes on a bar.
ProcessorHandle(p, event) ==
    IF event.kind = "bar"
    THEN CASE p.class = "EquityCurveProcessor" ->
                 EquityProcessBar(p, event.timestamp, event.portfolio_value)
           [] p.class = "DrawdownProcessor" ->
                 DrawdownProcessBar(p, event.timestamp, event.portfolio_value)
           [] p.class = "TradeListProcessor" -> [processor |-> p, raised |-> "no"]
    ELSE CASE p.class = "TradeListProcessor" -> TradeProcessTrade(p, event.trade)
           [] OTHER -> [processor |-> p, raised |-> "no"]

\* EquityCurveProcessor.get_metrics: without data only total_return is there.
EquityGetMetrics(p) ==
    IF p.equity_data = <<>>
    THEN [total_return |-> R(0)]
    ELSE [total_return |-> IF p.equity_data[1] # 0
                           THEN RSub(RDiv(R(p.equity_data[Len(p.equity_data)]),
                                          R(p.equity_data[1])), R(1))
                           ELSE R(0),
          current_value |-> p.equity_data[Len(p.equity_data)],
          initial_value |-> p.initial_cash]

\* DrawdownProcessor.get_metrics, without the drawdown series.
DrawdownGetMetrics(p) ==
    IF Len(p.equity_values) < 2
    THEN [max_drawdown |-> R(0), max_drawdown_duration |-> 0,
          current_drawdown |-> R(0), current_drawdown_duration |-> 0]
    ELSE LET current_value == p.equity_values[Len(p.equity_values)]
             current_dd_duration == IF IsNone(p.current_drawdown_start) THEN 0
                                    ELSE p.current_drawdown_duration
         IN  [max_drawdown |-> p.max_drawdown,
              max_drawdown_duration |-> Max2(p.max_drawdown_duration, current_dd_duration),
              current_drawdown |-> RDiv(R(current_value - p.current_peak),
                                        R(p.current_peak)),
              current_drawdown_duration |-> current_dd_duration]

\* TradeListProcessor.get_metrics, without the data frame.
TradeGetMetrics(p) ==
    IF p.trades = <<>>
    THEN [total_trades |-> 0, winning_trades |-> 0, losing_trades |-> 0,
          win_rate |-> R(0), avg_win |-> R(0), avg_loss |-> R(0),
          profit_factor |-> R(0), total_pnl |-> 0]
    ELSE [total_trades |-> p.trade_count,
          winning_trades |-> p.winning_trades,
          losing_trades |-> p.losing_trades,
          win_rate |-> IF p.trade_count > 0
                       THEN RDiv(R(p.winning_trades), R(p.trade_count)) ELSE R(0),
          avg_win |-> IF p.winning_trades > 0
                      THEN RDiv(R(p.gross_wins), R(p.winning_trades)) ELSE R(0),
          avg_loss |-> IF p.losing_trades > 0
                       THEN RDiv(R(p.gross_losses), R(p.losing_trades)) ELSE R(0),
          profit_factor |-> IF p.gross_losses > 0
                            THEN RDiv(R(p.gross_wins), R(p.gross_losses)) ELSE Inf,
          total_pnl |-> p.total_pnl,
          gross_wins |-> p.gross_wins,
          gross_losses |-> p.gross_losses]

\* processor.get_metrics()
ProcessorGetMetrics(p) ==
    CASE p.class = "EquityCurveProcessor" -> EquityGetMetrics(p)
      [] p.class = "DrawdownProcessor" -> DrawdownGetMetrics(p)
      [] p.class = "TradeListProcessor" -> TradeGetMetrics(p)

\* reset() with a DrawdownProcessor that keeps its worst drawdown.
ProcessorReset_KeepsMaxDrawdown(p) ==
    CASE p.class = "EquityCurveProcessor" ->
            [p EXCEPT !.initialized = FALSE, !.equity_data = <<>>, !.initial_cash = 0]
      [] p.class = "DrawdownProcessor" ->
            [p EXCEPT !.initialized = FALSE, !.equity_values = <<>>,
                      !.current_peak = 0,
                      !.max_drawdown_duration = 0, !.current_drawdown_start = None,
                      !.current_drawdown_duration = 0]
      [] p.class = "TradeListProcessor" ->
            [p EXCEPT !.initialized = FALSE, !.trades = <<>>, !.trade_count = 0,
                      !.winning_trades = 0, !.losing_trades = 0, !.total_pnl = 0,
                      !.gross_wins = 0, !.gross_losses = 0]

\* reset() of the three classes, each after MetricProcessor.reset.
ProcessorReset(p) ==
    CASE p.class = "EquityCurveProcessor" ->
            [p EXCEPT !.initialized = FALSE, !.equity_data = <<>>, !.initial_cash = 0]
      [] p.class = "DrawdownProcessor" ->
            [p EXCEPT !.initialized = FALSE, !.equity_values = <<>>,
                      !.current_peak = 0, !.max_drawdown = R(0),
                      !.max_drawdown_duration = 0, !.current_drawdown_start = None,
                      !.current_drawdown_duration = 0]
      [] p.class = "TradeListProcessor" ->
            [p EXCEPT !.initialized = FALSE, !.trades = <<>>, !.trade_count = 0,
                      !.winning_trades = 0, !.losing_trades = 0, !.total_pnl = 0,
                      !.gross_wins = 0, !.gross_losses = 0]

\* MetricsCalculator._calculate_trade_metrics on the trades of a result
\* (results.get_trades(): one row for each filled order of the portfolio).
CalculateTradeMetrics(trades) ==
    IF trades = <<>>
    THEN [total_trades |-> 0, winning_trades |-> 0, losing_trades |-> 0,
          win_rate |-> R(0), avg_win |-> R(0), avg_loss |-> R(0), profit_factor |-> R(0)]
    ELSE LET total_trades == Len(trades)
             sells == SelectSeq(trades, LAMBDA t : t.side = "sell")
             buys == SelectSeq(trades, LAMBDA t : t.side = "buy")
             wins == SumSeq([k \in 1..Len(sells) |-> sells[k].value])
             losses == SumSeq([k \in 1..Len(buys) |-> buys[k].value])
             winning_trades == Len(sells)
             losing_trades == Len(buys)
         IN  [total_trades |-> total_trades,
              winning_trades |-> winning_trades,
              losing_trades |-> losing_trades,
              win_rate |-> IF total_trades > 0
                           THEN RDiv(R(winning_trades), R(total_trades)) ELSE R(0),
              avg_win |-> IF winning_trades > 0
                          THEN RDiv(R(wins), R(winning_trades)) ELSE R(0),
              avg_loss |-> IF losing_trades > 0
                           THEN RDiv(R(losses), R(losing_trades)) ELSE R(0),
              profit_factor |-> IF losses # 0
                                THEN RDiv(R(wins), R(Abs(losses))) ELSE R(0)]

\* MetricsCalculator._calculate_drawdown_metrics, the duration: the longest
\* run of values whose drawdown (equity - peak) / peak from the running peak
\* is negative, the run counted up to the i-th value being current.
RECURSIVE DurationFrom(_, _, _, _)
DurationFrom(equity, i, current_duration, max_duration) ==
    IF i > Len(equity) THEN max_duration
    ELSE The({IF RLt(RDiv(R(equity[i] - peak), R(peak)), R(0))
              THEN DurationFrom(equity, i + 1, current_duration + 1,
                                Max2(max_duration, current_duration + 1))
              ELSE DurationFrom(equity, i + 1, 0, max_duration) :
              peak \in {MaxOfSeq(SubSeq(equity, 1, i))}})

CalculateDrawdownDuration(equity) == DurationFrom(equity, 1, 0, 0)

\* MetricsPipeline(processors): the list as given (None: the three default
\* processors), the map built from it by name (a later processor replaces an
\* earlier one of the same name).  _initial_cash exists from initialize on.
NewPipeline(processors) ==
    LET list == [i \in 1..Len(processors) |-> [processors[i] EXCEPT !.id = i]]
    IN  [processors |-> list,
         processor_map |->
            [n \in {list[i].name : i \in 1..Len(list)} |->
                list[CHOOSE i \in 1..Len(list) :
                        /\ list[i].name = n
                        /\ \A j \in (i + 1)..Len(list) : list[j].name # n].id],
         initialized |-> FALSE,
         initial_cash |-> None,
         created |-> Len(processors)]

DefaultProcessors == <<NewEquityCurveProcessor, NewDrawdownProcessor, NewTradeListProcessor>>

\* The processor of the list that is the object with this id.
ProcessorAt(pl, id) ==
    pl.processors[CHOOSE i \in 1..Len(pl.processors) : pl.processors[i].id = id]

\* add_processor without the initialize of a processor added late.
PipelineAddProcessor_NoInitialize(pl, processor) ==
    IF processor.name \in DOMAIN pl.processor_map
    THEN [pipeline |-> pl, raised |-> "ValueError"]
    ELSE LET p == [processor EXCEPT !.id = pl.created + 1]
         IN  [pipeline |->
                 [pl EXCEPT !.processors = Append(@, p),
                            !.processor_map =
                                [n \in DOMAIN @ \cup {p.name} |->
                                    IF n = p.name THEN p.id ELSE @[n]],
                            !.created = @ + 1],
              raised |-> "no"]

\* add_processor of a newly constructed processor; its result is the
\* pipeline then and what the call raised.
PipelineAddProcessor(pl, processor) ==
    IF processor.name \in DOMAIN pl.processor_map
    THEN [pipeline |-> pl, raised |-> "ValueError"]
    ELSE LET p == [processor EXCEPT !.id = pl.created + 1]
             added == IF pl.initialized
                      THEN ProcessorInitialize(p, Val(pl.initial_cash)) ELSE p
         IN  [pipeline |->
                 [pl EXCEPT !.processors = Append(@, added),
                            !.processor_map =
                                [n \in DOMAIN @ \cup {p.name} |->
                                    IF n = p.name THEN p.id ELSE @[n]],
                            !.created = @ + 1],
              raised |-> "no"]

\* remove_processor: list.remove takes out the object the map names.
PipelineRemoveProcessor(pl, name) ==
    IF name \notin DOMAIN pl.processor_map
    THEN [pipeline |-> pl, result |-> FALSE]
    ELSE [pipeline |->
             [pl EXCEPT !.processors =
                            SelectSeq(@, LAMBDA p : p.id # pl.processor_map[name]),
                        !.processor_map = [n \in DOMAIN @ \ {name} |-> @[n]]],
          result |-> TRUE]

\* initialize(initial_cash)
PipelineInitialize(pl, initial_cash) ==
    [pl EXCEPT !.initial_cash = Some(initial_cash),
               !.processors = [i \in 1..Len(@) |-> ProcessorInitialize(@[i], initial_cash)],
               !.initialized = TRUE]

\* The for loop of process_bar and process_trade from the i-th processor
\* on: a processor that raises ends the call, the processors before it
\* having handled the event.
RECURSIVE PipelineLoop(_, _, _)
PipelineLoop(pl, i, event) ==
    IF i > Len(pl.processors) THEN [pipeline |-> pl, raised |-> "no"]
    ELSE The({IF r.raised # "no"
              THEN [pipeline |-> [pl EXCEPT !.processors[i] = r.processor],
                    raised |-> r.raised]
              ELSE PipelineLoop([pl EXCEPT !.processors[i] = r.processor], i + 1, event) :
              r \in {ProcessorHandle(pl.processors[i], event)}})

\* process_bar(timestamp, portfolio_value) and process_trade(trade)
PipelineProcess(pl, event) ==
    IF ~pl.initialized
    THEN [pipeline |-> pl, raised |-> "MetricsPipeline not initialized"]
    ELSE PipelineLoop(pl, 1, event)

\* get_processor_metrics(name): None without such a processor.
GetProcessorMetrics(pl, name) ==
    IF name \in DOMAIN pl.processor_map
    THEN Some(ProcessorGetMetrics(ProcessorAt(pl, pl.processor_map[name])))
    ELSE None

\* dict.get(key, default)
Get(dict, key, default) == IF key \in DOMAIN dict THEN dict[key] ELSE default

\* dict.update
Update(dict, other) ==
    [k \in DOMAIN dict \cup DOMAIN other |-> IF k \in DOMAIN other THEN other[k] ELSE dict[k]]

\* get_summary_metrics
GetSummaryMetrics(pl) ==
    LET equity_metrics == GetProcessorMetrics(pl, "equity_curve")
        drawdown_metrics == GetProcessorMetrics(pl, "drawdown")
        trade_metrics == GetProcessorMetrics(pl, "trade_list")
        s1 == IF IsNone(equity_metrics) THEN <<>>
              ELSE [total_return |-> Get(Val(equity_metrics), "total_return", R(0)),
                    current_value |-> Get(Val(equity_metrics), "current_value", 0),
                    initial_value |-> Get(Val(equity_metrics), "initial_value", 0)]
        s2 == IF IsNone(drawdown_metrics) THEN s1
              ELSE Update(s1,
                     [max_drawdown |-> Get(Val(drawdown_metrics), "max_drawdown", R(0)),
                      max_drawdown_duration |->
                          Get(Val(drawdown_metrics), "max_drawdown_duration", 0),
                      current_drawdown |->
                          Get(Val(drawdown_metrics), "current_drawdown", R(0))])
    IN  IF IsNone(trade_metrics) THEN s2
        ELSE Update(s2,
               [total_trades |-> Get(Val(trade_metrics), "total_trades", 0),
                winning_trades |-> Get(Val(trade_metrics), "winning_trades", 0),
                losing_trades |-> Get(Val(trade_metrics), "losing_trades", 0),
                win_rate |-> Get(Val(trade_metrics), "win_rate", R(0)),
                profit_factor |-> Get(Val(trade_metrics), "profit_factor", R(0)),
                total_pnl |-> Get(Val(trade_metrics), "total_pnl", 0)])

\* reset()
PipelineReset(pl) ==
    [pl EXCEPT !.processors = [i \in 1..Len(@) |-> ProcessorReset(@[i])],
               !.initialized = FALSE]

VARIABLES
    \* BacktestEngine.run
    pc,                 \* position in run()
    current_index,      \* DataHandler.current_index
    priced,             \* symbols whose data has a close column
    strategy_kind,      \* which strategy the run drives
    current_prices,     \* run()'s current_prices of the bar being processed
    kill_switch_active, \* BacktestEngine.kill_switch_active
    portfolio,          \* the Portfolio
    triggers,           \* the kill-switch triggers, by name
    \* history of the run, for stating the claims
    execLog,            \* execute_order calls made by run(): bar, order, price
    stepLog,            \* the steps run() has taken: <<bar, step>>
    closeLog,           \* current_prices of every bar loaded so far
    killBar,            \* the bar at which check_kill_switch returned True
    \* history of direct calls on a portfolio and its orders
    calls,              \* how many calls were made
    lastCall,           \* the latest call: op, order, price
    \* history of direct check and reset calls on the triggers
    checks,             \* how many calls were made
    lastResult,         \* per trigger, its latest check: the outcome and the input
    latched,            \* per trigger, the checks that returned True since its reset
    \* an ATRBreakoutStrategy and the history of the calls made on it
    strat,              \* the ATRBreakoutStrategy
    last_close,         \* the close of the bar the caller passed last, None before the first
    stratCalls,         \* how many calls were made
    lastStrat,          \* the latest call: op, what it raised, the trailing distance it used
    \* a KillSwitchManager and the history of the calls made on it
    manager,            \* the KillSwitchManager
    mgrCalls,           \* how many check_triggers and reset_all_triggers calls were made
    lastMgr,            \* the latest call: op, result, triggers evaluated, triggers that tripped
    invoked,            \* the callbacks invoked since the last reset: <<callback, trigger>>
    \* a parameter sweep over the engine
    sweep,              \* mode, data, points, points to evaluate, point in evaluation, results
    \* a MetricsPipeline and the history of the calls made on it
    pipeline,           \* the MetricsPipeline
    pipeCalls,          \* how many calls were made
    lastPipe,           \* the latest call: op, what it raised
    fresh               \* since the latest reset and initialize: a fresh pipeline given the same calls

engineVars == <<pc, current_index, priced, strategy_kind, current_prices,
                kill_switch_active, execLog, stepLog, closeLog, killBar, sweep>>

apiVars == <<calls, lastCall>>

checkVars == <<checks, lastResult, latched>>

stratVars == <<strat, last_close, stratCalls, lastStrat>>

mgrVars == <<manager, mgrCalls, lastMgr, invoked>>

pipeVars == <<pipeline, pipeCalls, lastPipe, fresh>>

vars == <<engineVars, portfolio, triggers, apiVars, checkVars, stratVars, mgrVars, pipeVars>>

\* The state after construction: an engine over data for the symbols of one of
\* the universes, its portfolio and triggers, and a strategy whose trailing
\* config has one of the use_dynamic_atr settings.
NewTriggers ==
    [n \in TriggerNames |-> IF n = "drawdown" THEN NewDrawdownTrigger ELSE NewTrigger]

InitAll(universes, kinds, strategies, sweeps, pipelines) ==
    /\ pipeline \in pipelines
    /\ pipeCalls = 0
    /\ lastPipe = [op |-> "none", raised |-> "no"]
    /\ fresh = [pipeline |-> None, was_reset |-> FALSE, handled |-> 0, discarded |-> 0]
    /\ sweep \in sweeps
    /\ strat \in strategies
    /\ manager = NewManager
    /\ mgrCalls = 0
    /\ lastMgr = [op |-> "none", result |-> "none", short |-> FALSE,
                  evaluated |-> <<>>, tripped |-> {}, callbacks |-> <<>>]
    /\ invoked = <<>>
    /\ last_close = None
    /\ stratCalls = 0
    /\ lastStrat = [op |-> "none", raised |-> "no", distance |-> None]
    /\ pc = "idle"
    /\ current_index = 0
    /\ priced \in universes
    /\ strategy_kind \in kinds
    /\ current_prices = <<>>
    /\ kill_switch_active = FALSE
    /\ portfolio = NewPortfolio(InitialCash)
    /\ triggers = NewTriggers
    /\ checks = 0
    /\ lastResult = [n \in TriggerNames |-> [result |-> "none", input |-> None]]
    /\ latched = [n \in TriggerNames |-> 0]
    /\ execLog = <<>>
    /\ stepLog = <<>>
    /\ closeLog = <<>>
    /\ killBar = None
    /\ calls = 0
    /\ lastCall = [op |-> "none", order |-> 0, price |-> 0]

InitWith(universes, kinds, strategies, sweeps) ==
    InitAll(universes, kinds, strategies, sweeps, {NewPipeline(DefaultProcessors)})

Init == InitWith({{"A"}, {"A", "B"}}, {"market"}, {NewStrategy(FALSE, LookbackPeriod)}, {NoSweep})

(***************************************************************************)
(* The steps of BacktestEngine.run.                                        *)
(***************************************************************************)
Advance(step) ==
    /\ pc' = StepAfter(step)
    /\ current_index' = IF StepAfter(step) = "bar" THEN current_index + 1
                        ELSE current_index
    /\ stepLog' = Append(stepLog, <<current_index, step>>)

\* run(), up to the loop: a fresh portfolio, strategy.on_start().
RunStart ==
    /\ pc = "idle"
    /\ pc' = "bar"
    /\ portfolio' = NewPortfolio(InitialCash)
    /\ current_index' = 0
    /\ UNCHANGED <<apiVars, checkVars, stratVars, mgrVars, pipeVars, sweep, priced, strategy_kind, current_prices, kill_switch_active,
                   triggers, execLog, stepLog, closeLog, killBar>>

\* The loop head: has_data(), get_current_data(), the bar's close prices.
LoadBar ==
    /\ pc = "bar"
    /\ current_index < NumBars
    /\ \E prices \in [priced -> Closes] :
          /\ \A s \in priced : prices[s] \in ClosesOf(s)
          /\ IF IsNone(sweep.data) THEN TRUE
             ELSE prices["A"] = Val(sweep.data)[current_index + 1]
          /\ current_prices' = prices
          /\ closeLog' = Append(closeLog, prices)
    /\ pc' = "kill"
    /\ UNCHANGED <<apiVars, checkVars, stratVars, mgrVars, pipeVars, sweep, current_index, priced, strategy_kind, kill_switch_active,
                   portfolio, triggers, execLog, stepLog, killBar>>

LoopEnd ==
    /\ pc = "bar"
    /\ current_index >= NumBars
    /\ pc' = "finish"
    /\ UNCHANGED <<apiVars, checkVars, stratVars, mgrVars, pipeVars, sweep, current_index, priced, strategy_kind, current_prices,
                   kill_switch_active, portfolio, triggers, execLog, stepLog,
                   closeLog, killBar>>

KillSwitchStep ==
    /\ pc = "kill"
    /\ LET r == CheckKillSwitch(EngineTriggers, triggers, portfolio, current_prices)
       IN  /\ triggers' = r.triggers
           /\ kill_switch_active' = (kill_switch_active \/ r.result = "true")
           /\ killBar' = IF r.result = "true" THEN Some(current_index) ELSE killBar
           /\ pc' = AfterKillSwitch(r.result)
           /\ current_index' = IF AfterKillSwitch(r.result) = "bar"
                               THEN current_index + 1 ELSE current_index
    /\ stepLog' = Append(stepLog, <<current_index, "kill">>)
    /\ UNCHANGED <<apiVars, checkVars, stratVars, mgrVars, pipeVars, sweep, priced, strategy_kind, current_prices, portfolio, execLog, closeLog>>

ExecuteStep ==
    /\ pc = "exec"
    /\ LET r == ExecutePending(portfolio, GetPendingOrders(portfolio),
                               current_prices, current_index, execLog)
       IN  /\ portfolio' = r.portfolio
           /\ execLog' = r.log
    /\ Advance("exec")
    /\ UNCHANGED <<apiVars, checkVars, stratVars, mgrVars, pipeVars, sweep, priced, strategy_kind, current_prices, kill_switch_active,
                   triggers, closeLog, killBar>>

EquityStep ==
    /\ pc = "equity"
    /\ portfolio' = UpdateEquityCurve(portfolio, current_index, current_prices)
    /\ Advance("equity")
    /\ UNCHANGED <<apiVars, checkVars, stratVars, mgrVars, pipeVars, sweep, priced, strategy_kind, current_prices, kill_switch_active,
                   triggers, execLog, closeLog, killBar>>

\* What strategy.on_data() may ask for: any orders up to MaxOrders in the
\* run, or the orders of the parameter point in evaluation.
OnData(kind, sw, pf, bar) ==
    IF kind = "point" THEN {PointOrders(sw.points[sw.current], bar)}
    ELSE SeqsUpTo(Requests(kind), MaxOrders - Len(pf.orders))

\* strategy.on_data(): the strategy places orders through buy() and sell().
StrategyStep ==
    /\ pc = "strategy"
    /\ \E reqs \in OnData(strategy_kind, sweep, portfolio, current_index) :
          portfolio' = PlaceAll(portfolio, reqs, current_index)
    /\ Advance("strategy")
    /\ UNCHANGED <<apiVars, checkVars, stratVars, mgrVars, pipeVars, sweep, priced, strategy_kind, current_prices, kill_switch_active,
                   triggers, execLog, closeLog, killBar>>

\* After the loop: strategy.on_finish(), the results.
Finish ==
    /\ pc = "finish"
    /\ pc' = "done"
    /\ UNCHANGED <<apiVars, checkVars, stratVars, mgrVars, pipeVars, sweep, current_index, priced, strategy_kind, current_prices,
                   kill_switch_active, portfolio, triggers, execLog, stepLog,
                   closeLog, killBar>>

Next ==
    \/ RunStart
    \/ LoadBar
    \/ LoopEnd
    \/ KillSwitchStep
    \/ ExecuteStep
    \/ EquityStep
    \/ StrategyStep
    \/ Finish

Spec == Init /\ [][Next]_vars

\* A run whose strategy places limit orders as well as market orders.
SpecLimit ==
    InitWith({{"A"}}, {"limit"}, {NewStrategy(FALSE, LookbackPeriod)}, {NoSweep}) /\ [][Next]_vars

(***************************************************************************)
(* Direct use of a Portfolio and its Orders: any sequence of buy, sell,    *)
(* execute_order, Order.fill, Order.cancel and Order.reject calls.         *)
(***************************************************************************)
MaxCalls == 4

ApiRequests == [symbol : Symbols, quantity : Quantities, side : {"buy", "sell"},
                price : {None}]

Called(op, i, price) ==
    /\ calls < MaxCalls
    /\ calls' = calls + 1
    /\ lastCall' = [op |-> op, order |-> i, price |-> price]
    /\ UNCHANGED <<engineVars, triggers, checkVars, stratVars, mgrVars, pipeVars>>

\* Portfolio.buy, Portfolio.sell
ApiPlace ==
    /\ Len(portfolio.orders) < MaxOrders
    /\ \E req \in ApiRequests :
          portfolio' = PlaceOrder(portfolio, req.symbol, req.quantity, req.side, req.price, 0)
    /\ Called("place", Len(portfolio.orders) + 1, 0)

\* Portfolio.execute_order
ApiExecuteOrder ==
    \E i \in 1..Len(portfolio.orders), price \in Closes :
        /\ portfolio' = ExecuteOrder(portfolio, i, price, 0)
        /\ Called("execute_order", i, price)

ApiOrderFill ==
    \E i \in 1..Len(portfolio.orders), price \in Closes :
        /\ portfolio' = [portfolio EXCEPT !.orders[i] = OrderFill(@, price)]
        /\ Called("fill", i, price)

ApiOrderCancel ==
    \E i \in 1..Len(portfolio.orders) :
        /\ portfolio' = [portfolio EXCEPT !.orders[i] = OrderCancel(@)]
        /\ Called("cancel", i, 0)

ApiOrderReject ==
    \E i \in 1..Len(portfolio.orders) :
        /\ portfolio' = [portfolio EXCEPT !.orders[i] = OrderReject(@)]
        /\ Called("reject", i, 0)

NextPortfolio ==
    \/ ApiPlace
    \/ ApiExecuteOrder
    \/ ApiOrderFill
    \/ ApiOrderCancel
    \/ ApiOrderReject

SpecPortfolio == Init /\ [][NextPortfolio]_vars

\* A portfolio used through buy, sell and execute_order only.
SpecTrading == Init /\ [][ApiPlace \/ ApiExecuteOrder]_vars

(***************************************************************************)
(* Direct use of the triggers: any sequence of check calls, with any       *)
(* portfolio value and timestamp, and of reset calls.                      *)
(***************************************************************************)
MaxChecks == 5

Values == {0, 2, 3, 4, 6}
Timestamps == [minute : {600, 1020}, weekday : {0, 5}]

Checked(name, input, r) ==
    /\ checks < MaxChecks
    /\ checks' = checks + 1
    /\ triggers' = [triggers EXCEPT ![name] = r.trigger]
    /\ lastResult' = [lastResult EXCEPT ![name] = [result |-> r.result, input |-> Some(input)]]
    /\ latched' = IF r.result = "true" \/ latched[name] > 0
                  THEN [latched EXCEPT ![name] = @ + 1] ELSE latched
    /\ UNCHANGED <<engineVars, portfolio, apiVars, stratVars, mgrVars, pipeVars>>

CheckDrawdown ==
    \E v \in Values : Checked("drawdown", v, DrawdownCheck(triggers["drawdown"], v))

CheckLoss ==
    \E v \in Values : Checked("loss", v, LossCheck(triggers["loss"], v, portfolio.initial_cash))

CheckTime ==
    \E ts \in Timestamps : Checked("time", ts, TimeBasedCheck(triggers["time"], ts))

ResetTrigger ==
    \E name \in TriggerNames :
        /\ checks < MaxChecks
        /\ checks' = checks + 1
        /\ triggers' = [triggers EXCEPT ![name] = TriggerReset(@)]
        /\ lastResult' = [lastResult EXCEPT ![name] = [result |-> "none", input |-> None]]
        /\ latched' = [latched EXCEPT ![name] = 0]
        /\ UNCHANGED <<engineVars, portfolio, apiVars, stratVars, mgrVars, pipeVars>>

NextTriggers ==
    \/ CheckDrawdown
    \/ CheckLoss
    \/ CheckTime
    \/ ResetTrigger

SpecTriggers == Init /\ [][NextTriggers]_vars

(***************************************************************************)
(* Direct use of an ATRBreakoutStrategy: any sequence of process_bar,      *)
(* enter_position and exit_position calls.  The caller passes each bar's   *)
(* close as the prev_close of the next bar.                                *)
(***************************************************************************)
MaxStratCalls == 4

Prices == {1, 2, 3}
Bars == {b \in [high : Prices, low : Prices, close : Prices] :
            /\ b.low <= b.close
            /\ b.close <= b.high
            /\ b.high - b.low <= 1}
EntryPrices == {2}
EntrySizes == {1}
ExitPrices == {2}

StratCalled(op, raised, distance) ==
    /\ stratCalls' = stratCalls + 1
    /\ lastStrat' = [op |-> op, raised |-> raised, distance |-> distance]
    /\ UNCHANGED <<engineVars, portfolio, triggers, apiVars, checkVars, mgrVars, pipeVars>>

StratProcessBar ==
    /\ stratCalls < MaxStratCalls
    /\ \E b \in Bars :
        \E prev_close \in (IF IsNone(last_close) THEN Prices ELSE {Val(last_close)}) :
            LET r == ProcessBar(strat, b.high, b.low, b.close, prev_close)
            IN  /\ strat' = r.strategy
                /\ last_close' = Some(b.close)
                /\ StratCalled("process_bar", "no", r.distance)

StratEnterPosition ==
    /\ stratCalls < MaxStratCalls
    /\ \E price \in EntryPrices, size \in EntrySizes, is_long \in BOOLEAN :
        LET r == EnterPosition(strat, R(price), R(size), is_long)
        IN  /\ strat' = r.strategy
            /\ UNCHANGED last_close
            /\ StratCalled("enter_position", r.raised, None)

StratExitPosition ==
    /\ stratCalls < MaxStratCalls
    /\ \E price \in ExitPrices :
        LET r == ExitPosition(strat, R(price), "manual")
        IN  /\ strat' = r.strategy
            /\ UNCHANGED last_close
            /\ StratCalled("exit_position", r.raised, None)

NextStrategy ==
    \/ StratProcessBar
    \/ StratEnterPosition
    \/ StratExitPosition

SpecStrategy ==
    InitWith({{"A"}}, {"market"}, {NewStrategy(d, LookbackPeriod) : d \in BOOLEAN}, {NoSweep}) /\ [][NextStrategy]_vars

(***************************************************************************)
(* Direct use of an EnhancedStrategy: process_bar, enter_position and      *)
(* exit_position in any sequence, for each trailing configuration.         *)
(***************************************************************************)
EnhancedCalled(op, raised, bar, r) ==
    /\ stratCalls' = stratCalls + 1
    /\ lastStrat' = [op |-> op, raised |-> raised, bar |-> bar, distance |-> r.distance,
                     stop |-> r.stop, exit_result |-> r.exit_result]
    /\ UNCHANGED <<engineVars, portfolio, triggers, apiVars, checkVars, mgrVars, pipeVars>>

EnhProcessBar ==
    /\ stratCalls < MaxStratCalls
    /\ \E b \in Bars :
        \E prev_close \in (IF IsNone(last_close) THEN Prices ELSE {Val(last_close)}) :
            LET r == EnhancedProcessBar(strat, b.high, b.low, b.close, prev_close)
            IN  /\ strat' = r.strategy
                /\ last_close' = Some(b.close)
                /\ EnhancedCalled("process_bar", "no", Some(b),
                                  [distance |-> r.distance, stop |-> r.stop,
                                   exit_result |-> r.result.exit_result])

EnhEnterPosition ==
    /\ stratCalls < MaxStratCalls
    /\ \E price \in EntryPrices, size \in EntrySizes, is_long \in BOOLEAN :
        LET r == EnhancedEnterPosition(strat, R(price), R(size), is_long)
        IN  /\ strat' = r.strategy
            /\ UNCHANGED last_close
            /\ EnhancedCalled("enter_position", r.raised, None,
                              [distance |-> None, stop |-> None, exit_result |-> None])

EnhExitPosition ==
    /\ stratCalls < MaxStratCalls
    /\ \E price \in ExitPrices :
        LET r == EnhancedExitPosition(strat, R(price), "manual")
        IN  /\ strat' = r.strategy
            /\ UNCHANGED last_close
            /\ EnhancedCalled("exit_position", r.raised, None,
                              [distance |-> None, stop |-> None,
                               exit_result |-> r.exit_result])

SpecEnhanced ==
    InitWith({{"A"}}, {"market"},
             {NewEnhanced(d, n) : d \in BOOLEAN, n \in {1, AtrPeriod}}, {NoSweep})
        /\ [][EnhProcessBar \/ EnhEnterPosition \/ EnhExitPosition]_vars

\* A strategy fed bars only, for every lookback_period from 1 (the least
\* that ATRBreakoutConfig._validate accepts) to one more than the default.
SpecBreakout ==
    InitWith({{"A"}}, {"market"},
             {NewStrategy(FALSE, l) : l \in 1..(LookbackPeriod + 1)}, {NoSweep})
        /\ [][StratProcessBar]_vars

(***************************************************************************)
(* Direct use of a KillSwitchManager: triggers are registered in any       *)
(* order, then check_triggers is called with any portfolio value and       *)
(* timestamp, and reset_all_triggers is called, in any sequence.           *)
(***************************************************************************)
MaxMgrCalls == 4

ManagerValues == {0, 2, 4}
ManagerTimestamps == [minute : {600, 1020}, weekday : {0}]

MgrAddTrigger ==
    /\ mgrCalls = 0
    /\ \E name \in TriggerNames :
          /\ ~InSeq(manager.triggers, name)
          /\ manager' = ManagerAddTrigger(manager, name)
    /\ UNCHANGED <<engineVars, portfolio, triggers, apiVars, checkVars, stratVars, pipeVars,
                   mgrCalls, lastMgr, invoked>>

MgrCheckTriggers ==
    /\ mgrCalls < MaxMgrCalls
    /\ \E value \in ManagerValues, timestamp \in ManagerTimestamps :
          LET r == ManagerCheckTriggers(manager, triggers,
                                        [value |-> value, timestamp |-> timestamp,
                                         initial_cash |-> portfolio.initial_cash])
          IN  /\ manager' = r.manager
              /\ triggers' = r.triggers
              /\ lastMgr' = [op |-> "check_triggers", result |-> r.result,
                             short |-> manager.is_active,
                             evaluated |-> r.evaluated, tripped |-> r.tripped,
                             callbacks |-> r.invoked]
              /\ invoked' = invoked \o r.invoked
    /\ mgrCalls' = mgrCalls + 1
    /\ UNCHANGED <<engineVars, portfolio, apiVars, checkVars, stratVars, pipeVars>>

MgrResetAll ==
    /\ mgrCalls < MaxMgrCalls
    /\ LET r == ManagerResetAll(manager, triggers)
       IN  /\ manager' = r.manager
           /\ triggers' = r.triggers
    /\ lastMgr' = [op |-> "reset_all_triggers", result |-> "none", short |-> FALSE,
                   evaluated |-> <<>>, tripped |-> {}, callbacks |-> <<>>]
    /\ invoked' = <<>>
    /\ mgrCalls' = mgrCalls + 1
    /\ UNCHANGED <<engineVars, portfolio, apiVars, checkVars, stratVars, pipeVars>>

NextManager ==
    \/ MgrAddTrigger
    \/ MgrCheckTriggers
    \/ MgrResetAll

SpecManager == Init /\ [][NextManager]_vars

(***************************************************************************)
(* A parameter sweep: _run_parallel_optimization evaluates every point     *)
(* with _evaluate_single_combination, which runs the optimizer's engine.   *)
(* With max_workers = 1 the calls are made in this process on self.engine; *)
(* otherwise each call runs in a worker process on the copy of the         *)
(* optimizer pickled when the task was submitted, and the results are      *)
(* collected in completion order.                                          *)
(***************************************************************************)
\* _evaluate_single_combination up to the loop of run(): strategy_class(),
\* set_params(**params), then run(): a fresh portfolio, strategy.on_start().
PointStart ==
    /\ sweep.status = "running"
    /\ sweep.current = 0
    /\ pc = "idle"
    /\ \E i \in NextPoints(sweep) :
          LET point == sweep.points[i]
              taken == [sweep EXCEPT !.todo = sweep.todo \ {i}]
          IN  IF point.fails \in {"construct", "set_params"}
              THEN /\ sweep' = AfterFailure(taken, i)
                   /\ UNCHANGED <<pc, current_index, strategy_kind, current_prices,
                                  kill_switch_active, execLog, stepLog, closeLog,
                                  killBar, portfolio, triggers>>
              ELSE /\ sweep' = [taken EXCEPT !.current = i]
                   /\ strategy_kind' = "point"
                   /\ portfolio' = NewPortfolio(InitialCash)
                   /\ triggers' = IF sweep.mode = "parallel" THEN NewTriggers ELSE triggers
                   /\ kill_switch_active' = IF sweep.mode = "parallel" THEN FALSE
                                            ELSE kill_switch_active
                   /\ pc' = IF point.fails = "run" THEN "raised" ELSE "bar"
                   /\ current_index' = 0
                   /\ current_prices' = <<>>
                   /\ execLog' = <<>>
                   /\ stepLog' = <<>>
                   /\ closeLog' = <<>>
                   /\ killBar' = None
    /\ UNCHANGED <<apiVars, checkVars, stratVars, mgrVars, pipeVars, priced>>

\* _evaluate_single_combination after run(): the metrics, the objective,
\* and the result returned, or the except branch.
PointEnd ==
    /\ sweep.current # 0
    /\ pc \in {"done", "raised"}
    /\ sweep' = IF pc = "raised" \/ sweep.points[sweep.current].fails \in {"metrics", "objective"}
                THEN AfterFailure(sweep, sweep.current)
                ELSE [sweep EXCEPT !.current = 0,
                                   !.results = Append(sweep.results,
                                                      SuccessResult(sweep.current, portfolio))]
    /\ pc' = "idle"
    /\ UNCHANGED <<apiVars, checkVars, stratVars, mgrVars, pipeVars, current_index, priced,
                   strategy_kind, current_prices, kill_switch_active, portfolio, triggers,
                   execLog, stepLog, closeLog, killBar>>

\* _run_parallel_optimization returns the results
SweepReturn ==
    /\ sweep.status = "running"
    /\ sweep.current = 0
    /\ sweep.todo = {}
    /\ sweep' = [sweep EXCEPT !.status = "returned"]
    /\ UNCHANGED <<apiVars, checkVars, stratVars, mgrVars, pipeVars, pc, current_index, priced,
                   strategy_kind, current_prices, kill_switch_active, portfolio, triggers,
                   execLog, stepLog, closeLog, killBar>>

NextSweep ==
    \/ PointStart
    \/ LoadBar
    \/ LoopEnd
    \/ KillSwitchStep
    \/ ExecuteStep
    \/ EquityStep
    \/ StrategyStep
    \/ Finish
    \/ PointEnd
    \/ SweepReturn

SpecSweep ==
    InitWith({{"A"}}, {"point"}, {NewStrategy(FALSE, LookbackPeriod)}, Sweeps) /\ [][NextSweep]_vars

(***************************************************************************)
(* Direct use of an ATRCalculator(period = AtrPeriod): add_bar with any    *)
(* high, low and previous close.  The calculator is kept in strat; the     *)
(* latest call keeps what add_bar returned and every true range so far.    *)
(***************************************************************************)
NewAtrCalculator == [period |-> AtrPeriod, true_ranges |-> <<>>]

\* The true ranges of all the bars added so far.
SeenRanges == IF lastStrat.op = "add_bar" THEN lastStrat.seen ELSE <<>>

AtrAddBarCall ==
    /\ stratCalls < MaxStratCalls
    /\ \E b \in Bars, prev_close \in Prices :
          /\ strat' = [strat EXCEPT !.true_ranges =
                                       AtrAddBar(@, b.high, b.low, prev_close)]
          /\ lastStrat' = [op |-> "add_bar", raised |-> "no",
                           atr |-> GetAtr(strat'.true_ranges),
                           seen |-> Append(SeenRanges, TrueRange(b.high, b.low, prev_close))]
    /\ stratCalls' = stratCalls + 1
    /\ UNCHANGED <<engineVars, portfolio, triggers, apiVars, checkVars, mgrVars, pipeVars,
                   last_close>>

SpecAtr ==
    InitWith({{"A"}}, {"market"}, {NewAtrCalculator}, {NoSweep}) /\ [][AtrAddBarCall]_vars

(***************************************************************************)
(* Direct use of a PriceBuffer(size): add_bar with any bar, for every size *)
(* up to MaxBufferSize.  The buffer is kept in strat; the latest call      *)
(* keeps every bar added so far.                                           *)
(***************************************************************************)
MaxBufferSize == 3

\* The bars added so far.
SeenBars == IF lastStrat.op = "add_bar" THEN lastStrat.seen ELSE <<>>

BufferAddBarCall ==
    /\ stratCalls < MaxStratCalls
    /\ \E b \in Bars :
          /\ strat' = BufferAddBar(strat, b.high, b.low, b.close)
          /\ lastStrat' = [op |-> "add_bar", raised |-> "no", seen |-> Append(SeenBars, b)]
    /\ stratCalls' = stratCalls + 1
    /\ UNCHANGED <<engineVars, portfolio, triggers, apiVars, checkVars, mgrVars, pipeVars,
                   last_close>>

SpecBuffer ==
    InitWith({{"A"}}, {"market"}, {NewPriceBuffer(size) : size \in 1..MaxBufferSize},
             {NoSweep})
        /\ [][BufferAddBarCall]_vars

(***************************************************************************)
(* Direct use of a MetricsPipeline: add_processor, remove_processor,       *)
(* initialize, process_bar, process_trade and reset in any sequence, on a  *)
(* pipeline built with the default processors or with a list of its own.   *)
(***************************************************************************)
MaxPipeCalls == 5

PipelineCash == {2, 4}

PortfolioValues == {1, 3, 5}

PipelineTrades == {[side |-> "buy", pnl |-> -1], [side |-> "sell", pnl |-> 1],
                   [side |-> "sell", pnl |-> 0]}

\* EquityCurveProcessor() given another name, as the tests do.
CustomEquity == [NewEquityCurveProcessor EXCEPT !.name = "custom_equity"]

AddableProcessors ==
    {NewEquityCurveProcessor, NewDrawdownProcessor, NewTradeListProcessor, CustomEquity}

ProcessorNames == {p.name : p \in AddableProcessors}

ConstructorLists == {DefaultProcessors, <<NewDrawdownProcessor, NewDrawdownProcessor>>}

\* A pipeline built like pl, processor for processor, and not used yet.
FreshLike(pl) ==
    [pl EXCEPT !.processors = [i \in 1..Len(@) |-> Constructed(@[i])],
               !.initialized = FALSE,
               !.initial_cash = None]

\* The call made on the fresh pipeline too, when there is one.
OnFresh(after) ==
    fresh' = IF IsNone(fresh.pipeline) THEN fresh
             ELSE [fresh EXCEPT !.pipeline = Some(after)]

PipeCalled(op, raised) ==
    /\ pipeCalls' = pipeCalls + 1
    /\ lastPipe' = [op |-> op, raised |-> raised]
    /\ UNCHANGED <<engineVars, portfolio, triggers, apiVars, checkVars, stratVars, mgrVars>>

PipeAddProcessor ==
    /\ pipeCalls < MaxPipeCalls
    /\ \E processor \in AddableProcessors :
          /\ \E r \in {PipelineAddProcessor(pipeline, processor)} :
                /\ pipeline' = r.pipeline
                /\ PipeCalled("add_processor", r.raised)
          /\ IF IsNone(fresh.pipeline) THEN UNCHANGED fresh
             ELSE OnFresh(PipelineAddProcessor(Val(fresh.pipeline), processor).pipeline)

PipeRemoveProcessor ==
    /\ pipeCalls < MaxPipeCalls
    /\ \E name \in ProcessorNames :
          /\ pipeline' = PipelineRemoveProcessor(pipeline, name).pipeline
          /\ PipeCalled("remove_processor", "no")
          /\ IF IsNone(fresh.pipeline) THEN UNCHANGED fresh
             ELSE OnFresh(PipelineRemoveProcessor(Val(fresh.pipeline), name).pipeline)

\* initialize(c): after a reset the fresh pipeline to compare with is built.
PipeInitialize ==
    /\ pipeCalls < MaxPipeCalls
    /\ \E c \in PipelineCash :
          /\ pipeline' = PipelineInitialize(pipeline, c)
          /\ PipeCalled("initialize", "no")
          /\ fresh' = [fresh EXCEPT
                         !.was_reset = FALSE,
                         !.pipeline =
                             IF fresh.was_reset
                             THEN Some(PipelineInitialize(FreshLike(pipeline), c))
                             ELSE IF IsNone(@) THEN None
                             ELSE Some(PipelineInitialize(Val(@), c))]

PipeEvent(op, event) ==
    /\ \E r \in {PipelineProcess(pipeline, event)} :
          /\ pipeline' = r.pipeline
          /\ PipeCalled(op, r.raised)
          /\ fresh' = [fresh EXCEPT
                         !.handled = IF r.raised = "no" THEN @ + 1 ELSE @,
                         !.pipeline = IF IsNone(@) THEN None
                                      ELSE Some(PipelineProcess(Val(@), event).pipeline)]

\* process_bar(timestamp, portfolio_value): time goes on with the calls.
PipeProcessBar ==
    /\ pipeCalls < MaxPipeCalls
    /\ \E v \in PortfolioValues :
          PipeEvent("process_bar",
                    [kind |-> "bar", timestamp |-> pipeCalls + 1, portfolio_value |-> v])

PipeProcessTrade ==
    /\ pipeCalls < MaxPipeCalls
    /\ \E trade \in PipelineTrades :
          PipeEvent("process_trade", [kind |-> "trade", trade |-> trade])

PipeReset ==
    /\ pipeCalls < MaxPipeCalls
    /\ pipeline' = PipelineReset(pipeline)
    /\ PipeCalled("reset", "no")
    /\ fresh' = [pipeline |-> None, was_reset |-> TRUE, handled |-> 0,
                 discarded |-> fresh.handled]

NextPipeline ==
    \/ PipeAddProcessor
    \/ PipeRemoveProcessor
    \/ PipeInitialize
    \/ PipeProcessBar
    \/ PipeProcessTrade
    \/ PipeReset

SpecPipeline ==
    InitAll({{"A"}}, {"market"}, {NewStrategy(FALSE, LookbackPeriod)}, {NoSweep},
            {NewPipeline(list) : list \in ConstructorLists})
        /\ [][NextPipeline]_vars

(***************************************************************************)
(* Definitions used to state the claims about a run.                       *)
(***************************************************************************)
StepDone(b, step) == \E j \in 1..Len(stepLog) : stepLog[j] = <<b, step>>

ExecutionsOf(i) == {k \in 1..Len(execLog) : execLog[k].order = i}

\* cash plus quantity times price over the positions the map prices
MarkedValue(pf, prices) ==
    LET S == DOMAIN pf.positions \cap DOMAIN prices
    IN  pf.cash + SumOver(S, [s \in S |-> pf.positions[s].quantity * prices[s]])

PriceMaps == UNION {[S -> Closes] : S \in SUBSET Symbols}

(***************************************************************************)
(* C1: an order placed in the callback of bar i is not filled or rejected  *)
(* while bar i is processed: every execute_order call on it belongs to a   *)
(* later bar, it leaves the pending state only by such a call, and once    *)
(* the pending orders of bar i+1 have been executed a market order for a   *)
(* priced symbol has been executed on bar i+1 at that bar's close.         *)
(***************************************************************************)
C1_NextBarExecution ==
    \A i \in 1..Len(portfolio.orders) :
        LET o == portfolio.orders[i]
            b == o.created_bar + 1
        IN  /\ \A k \in ExecutionsOf(i) : execLog[k].bar > o.created_bar
            /\ o.status # "pending" => ExecutionsOf(i) # {}
            /\ (IsNone(o.price) /\ o.symbol \in priced /\ StepDone(b, "exec"))
                  => \E k \in ExecutionsOf(i) :
                        /\ execLog[k].bar = b
                        /\ execLog[k].price = closeLog[b + 1][o.symbol]
                        /\ o.status = "filled" => o.fill_price = Some(closeLog[b + 1][o.symbol])

C1_Witness ==
    \E i \in 1..Len(portfolio.orders) :
        /\ portfolio.orders[i].status = "filled"
        /\ IsNone(portfolio.orders[i].price)
        /\ portfolio.orders[i].created_bar = 1
        /\ \E k \in ExecutionsOf(i) : execLog[k].bar = 2

(***************************************************************************)
(* C3: once a trigger has fired at the start of bar k the run leaves the   *)
(* loop: no order is executed, no equity point is recorded and the         *)
(* strategy is not called for bar k or any later bar, and no later bar is  *)
(* loaded.                                                                 *)
(***************************************************************************)
C3_KillSwitchStopsRun ==
    ~IsNone(killBar) =>
        /\ kill_switch_active
        /\ pc \in {"finish", "done"}
        /\ current_index = Val(killBar)
        /\ Len(closeLog) = Val(killBar) + 1
        /\ \A k \in 1..Len(execLog) : execLog[k].bar < Val(killBar)
        /\ \A k \in 1..Len(portfolio.equity_curve) :
              portfolio.equity_curve[k].timestamp < Val(killBar)
        /\ \A j \in 1..Len(stepLog) :
              stepLog[j][1] >= Val(killBar) => stepLog[j] = <<Val(killBar), "kill">>

C3_Witness ==
    /\ killBar = Some(2)
    /\ pc = "done"
    /\ \E i \in 1..Len(portfolio.orders) : portfolio.orders[i].status = "pending"

(***************************************************************************)
(* C5: the steps of every bar are taken in the order kill-switch check,    *)
(* execution of the pending orders, equity point, strategy callback, one   *)
(* bar after the other; the equity point of bar b is the value, at bar b's *)
(* closes, of the cash and positions that the fills up to and including    *)
(* bar b produce.                                                          *)
(***************************************************************************)
TradesThrough(b) == {k \in 1..Len(portfolio.trades) : portfolio.trades[k].bar <= b}

SignedQty(t) == IF t.side = "buy" THEN t.quantity ELSE -t.quantity

ValueFromLedger(b) ==
    LET T == TradesThrough(b)
        prices == closeLog[b + 1]
    IN  portfolio.initial_cash
        - SumOver(T, [k \in T |-> SignedQty(portfolio.trades[k]) * portfolio.trades[k].price])
        + SumOver(T, [k \in T |-> SignedQty(portfolio.trades[k])
                                     * prices[portfolio.trades[k].symbol]])

C5_StepOrder ==
    /\ \A j \in 1..Len(stepLog) :
          LET b == stepLog[j][1]
              prev == IF j = 1 THEN <<-1, "strategy">> ELSE stepLog[j - 1]
          IN  CASE stepLog[j][2] = "kill" -> prev = <<b - 1, "strategy">>
                [] stepLog[j][2] = "exec" -> prev = <<b, "kill">>
                [] stepLog[j][2] = "equity" -> prev = <<b, "exec">>
                [] stepLog[j][2] = "strategy" -> prev = <<b, "equity">>
    /\ \A k \in 1..Len(portfolio.equity_curve) :
          LET e == portfolio.equity_curve[k]
          IN  /\ StepDone(e.timestamp, "exec")
              /\ e.value = ValueFromLedger(e.timestamp)

C5_Witness ==
    /\ StepDone(1, "strategy")
    /\ \E k \in 1..Len(portfolio.trades) : portfolio.trades[k].bar = 1
    /\ \E i \in 1..Len(portfolio.orders) : portfolio.orders[i].created_bar = 1

(***************************************************************************)
(* C7: for every price map the total value is cash plus quantity times     *)
(* price over the positions (those the map prices), and the equity point   *)
(* just recorded is that value at the bar's closes, which price every      *)
(* position.                                                               *)
(***************************************************************************)
C7_TotalValue ==
    /\ \A pm \in PriceMaps : GetTotalValue(portfolio, pm) = MarkedValue(portfolio, pm)
    /\ pc = "strategy" =>
          /\ DOMAIN portfolio.positions \subseteq DOMAIN current_prices
          /\ portfolio.equity_curve[Len(portfolio.equity_curve)] =
                [timestamp |-> current_index,
                 value |-> MarkedValue(portfolio, current_prices)]

C7_Witness ==
    /\ pc = "strategy"
    /\ \A s \in Symbols : s \in DOMAIN portfolio.positions /\ portfolio.positions[s].quantity > 0

(***************************************************************************)
(* C8: within a bar the pending orders are executed in the order of their  *)
(* creation, each at most once.                                            *)
(***************************************************************************)
C8_CreationOrder ==
    /\ \A j, k \in 1..Len(execLog) :
          (j < k /\ execLog[j].bar = execLog[k].bar) => execLog[j].order < execLog[k].order
    /\ \A i, j \in 1..Len(portfolio.orders) :
          i < j => portfolio.orders[i].created_bar <= portfolio.orders[j].created_bar

\* Two buys of the same size compete for the cash: the earlier one is filled.
C8_Witness ==
    \E j, k \in 1..Len(execLog) :
        /\ j < k
        /\ execLog[j].bar = execLog[k].bar
        /\ portfolio.orders[execLog[j].order].side = "buy"
        /\ portfolio.orders[execLog[k].order].side = "buy"
        /\ portfolio.orders[execLog[j].order].symbol = portfolio.orders[execLog[k].order].symbol
        /\ portfolio.orders[execLog[j].order].quantity = portfolio.orders[execLog[k].order].quantity
        /\ portfolio.orders[execLog[j].order].status = "filled"
        /\ portfolio.orders[execLog[k].order].status = "rejected"

(***************************************************************************)
(* C2: once an order is filled, canceled or rejected its status never      *)
(* changes again, whatever fill, cancel, reject or execute_order call      *)
(* follows.                                                                *)
(***************************************************************************)
C2_TerminalStatusIsFinal ==
    [][\A i \in 1..Len(portfolio.orders) :
          portfolio.orders[i].status \in Terminal
             => portfolio'.orders[i].status = portfolio.orders[i].status]_vars

(***************************************************************************)
(* C6: when execute_order rejects an order (a buy whose cost exceeds the   *)
(* cash, a sell whose quantity exceeds the held quantity) the order        *)
(* becomes rejected and cash, positions and the trade ledger are as they   *)
(* were before the call.                                                   *)
(***************************************************************************)
HeldQuantity(pf, symbol) ==
    IF symbol \in DOMAIN pf.positions THEN pf.positions[symbol].quantity ELSE 0

MustReject(pf, i, price) ==
    LET o == pf.orders[i]
    IN  \/ o.side = "buy" /\ o.quantity * price > pf.cash
        \/ o.side = "sell" /\ o.quantity > HeldQuantity(pf, o.symbol)

C6_RejectionChangesNothing ==
    [][(/\ calls' = calls + 1
        /\ lastCall'.op = "execute_order"
        /\ MustReject(portfolio, lastCall'.order, lastCall'.price))
          => /\ portfolio'.orders[lastCall'.order].status = "rejected"
             /\ portfolio'.cash = portfolio.cash
             /\ portfolio'.positions = portfolio.positions
             /\ portfolio'.trades = portfolio.trades]_vars

(***************************************************************************)
(* C4: for every trigger, once a check has returned true (and until reset  *)
(* is called) activated is true and the latest check returned true,        *)
(* whatever value or timestamp it was given.                               *)
(***************************************************************************)
C4_TriggerLatches ==
    \A name \in TriggerNames :
        latched[name] > 0 =>
            /\ triggers[name].activated
            /\ lastResult[name].result = "true"

\* The drawdown trigger tripped and was then checked at a new peak, the loss
\* trigger tripped and was then checked with no loss.
C4_Witness ==
    /\ latched["drawdown"] = 2
    /\ lastResult["drawdown"] = [result |-> "true", input |-> Some(6)]
    /\ latched["loss"] = 2
    /\ lastResult["loss"] = [result |-> "true", input |-> Some(4)]

(***************************************************************************)
(* C9: while a long position stays open its stop price never decreases     *)
(* from one bar to the next, whatever the bars and also when the dynamic   *)
(* ATR distance grows or shrinks; the stop price of a short position never *)
(* increases.  Stated on every step that leaves the same position open.    *)
(***************************************************************************)
SamePositionOpen ==
    /\ ~IsNone(strat.position)
    /\ ~IsNone(strat'.position)
    /\ Val(strat'.position).id = Val(strat.position).id

C9_StopRatchet ==
    [][SamePositionOpen =>
          LET before == Val(strat.position).stop_price
              after == Val(strat'.position).stop_price
          IN  /\ ~IsNone(before)
              /\ ~IsNone(after)
              /\ Val(strat.position).is_long => RGe(Val(after), Val(before))
              /\ ~Val(strat.position).is_long => RLe(Val(after), Val(before))]_vars

\* A long position opened at a breakout was trailed with the dynamic ATR at a
\* distance other than its entry ATR, and the ratchet held its stop above
\* the level the bar's close asked for.
C9_Witness ==
    /\ strat.use_dynamic_atr
    /\ ~IsNone(strat.position)
    /\ lastStrat.op = "process_bar"
    /\ ~IsNone(lastStrat.distance)
    /\ LET position == Val(strat.position)
       IN  /\ position.is_long
           /\ position.timestamp >= AtrPeriod
           /\ position.timestamp < strat.bar_count
           /\ Val(lastStrat.distance) # position.entry_atr
           /\ RGt(Val(position.stop_price),
                  RSub(R(Val(last_close)), Val(lastStrat.distance)))

(***************************************************************************)
(* C10: the ATR breakout strategy has at most one open position: over any  *)
(* sequence of process_bar, enter_position and exit_position calls a       *)
(* position is created only when none is open, and an open position is     *)
(* never replaced or overwritten by an entry.                              *)
(***************************************************************************)
C10_SinglePosition ==
    [][/\ strat'.created # strat.created =>
            /\ IsNone(strat.position)
            /\ ~IsNone(strat'.position)
            /\ strat'.created = strat.created + 1
       /\ (~IsNone(strat.position) /\ ~IsNone(strat'.position)) =>
            LET before == Val(strat.position)
                after == Val(strat'.position)
            IN  /\ after.id = before.id
                /\ after.entry_price = before.entry_price
                /\ after.size = before.size
                /\ after.entry_atr = before.entry_atr
                /\ after.is_long = before.is_long
                /\ after.timestamp = before.timestamp]_vars

\* enter_position was called on a strategy holding a position and raised,
\* and the position it holds is the one it held.
C10_Witness ==
    /\ lastStrat.op = "enter_position"
    /\ lastStrat.raised = "PositionExistsError"
    /\ ~IsNone(strat.position)
    /\ Val(strat.position).id = strat.created

(***************************************************************************)
(* C11: enter_position called while a position is open raises              *)
(* PositionExistsError, exit_position called while none is open raises     *)
(* NoPositionError, and a call that raises leaves the strategy (its        *)
(* position with its stop price, its realized P&L) exactly as it was; a    *)
(* call in the other situation does not raise.                             *)
(***************************************************************************)
C11_ErrorsLeaveState ==
    [][stratCalls' = stratCalls + 1 =>
          /\ lastStrat'.op = "enter_position" =>
                IF IsNone(strat.position) THEN lastStrat'.raised = "no"
                ELSE lastStrat'.raised = "PositionExistsError" /\ strat' = strat
          /\ lastStrat'.op = "exit_position" =>
                IF IsNone(strat.position)
                THEN lastStrat'.raised = "NoPositionError" /\ strat' = strat
                ELSE lastStrat'.raised = "no"
          /\ lastStrat'.raised # "no" => strat' = strat]_vars

\* exit_position raised on a strategy that had traded before and is flat.
C11_Witness ==
    /\ lastStrat.op = "exit_position"
    /\ lastStrat.raised = "NoPositionError"
    /\ IsNone(strat.position)
    /\ strat.created >= 1
    /\ strat.realized_pnl # R(0)

(***************************************************************************)
(* C17: from any portfolio whose cash covers q shares at price p, a buy of *)
(* q shares of a symbol filled at p followed by a sell of q shares of the  *)
(* same symbol filled at p leaves the cash and the symbol's position       *)
(* quantity (zero when it started flat) as they were before the buy; the   *)
(* buy alone takes q*p from the cash and adds q to the quantity.           *)
(***************************************************************************)
BuyFilled(pf, symbol, q, p) ==
    LET placed == PlaceOrder(pf, symbol, q, "buy", None, 0)
    IN  ExecuteOrder(placed, Len(placed.orders), p, 0)

SellFilled(pf, symbol, q, p) ==
    LET placed == PlaceOrder(pf, symbol, q, "sell", None, 0)
    IN  ExecuteOrder(placed, Len(placed.orders), p, 0)

C17_BuySellRoundTrip ==
    \A symbol \in Symbols, q \in Quantities, p \in Closes :
        portfolio.cash >= q * p =>
            \A bought \in {BuyFilled(portfolio, symbol, q, p)} :
            \A sold \in {SellFilled(bought, symbol, q, p)} :
                /\ bought.orders[Len(bought.orders)].status = "filled"
                /\ bought.cash = portfolio.cash - q * p
                /\ HeldQuantity(bought, symbol) = HeldQuantity(portfolio, symbol) + q
                /\ sold.orders[Len(sold.orders)].status = "filled"
                /\ sold.cash = portfolio.cash
                /\ HeldQuantity(sold, symbol) = HeldQuantity(portfolio, symbol)
                /\ Len(sold.trades) = Len(portfolio.trades) + 2

\* The calls made on the portfolio were such a round trip: a buy and a sell
\* of the same shares at the same price, both filled, and the cash is back.
C17_Witness ==
    /\ Len(portfolio.trades) = 2
    /\ portfolio.trades[1].side = "buy"
    /\ portfolio.trades[2].side = "sell"
    /\ portfolio.trades[1].symbol = portfolio.trades[2].symbol
    /\ portfolio.trades[1].quantity = 2
    /\ portfolio.trades[2].quantity = 2
    /\ portfolio.trades[1].price = portfolio.trades[2].price
    /\ portfolio.cash = portfolio.initial_cash
    /\ HeldQuantity(portfolio, portfolio.trades[1].symbol) = 0

C20_LedgerRealizedPnl ==
    [][Len(portfolio'.trades) = Len(portfolio.trades) + 1 =>
          LET t == portfolio'.trades[Len(portfolio'.trades)]
              entry == portfolio.positions[t.symbol].average_price
          IN  /\ "realized_pnl" \in DOMAIN t
              /\ t.side = "sell" =>
                    t.realized_pnl = RMul(R(t.quantity), RSub(R(t.price), entry))
              /\ (t.side = "buy" /\ HeldQuantity(portfolio, t.symbol) = 0) =>
                    t.realized_pnl = R(0)]_vars

(***************************************************************************)
(* C19: a pending limit order that run() executes on a bar is executed at  *)
(* its limit price (a buy when the bar trades at or below the limit, a     *)
(* sell when it trades at or above it).                                    *)
(***************************************************************************)
C19_LimitFillsAtLimit ==
    \A k \in 1..Len(execLog) :
        LET o == portfolio.orders[execLog[k].order]
        IN  ~IsNone(o.price) =>
               /\ execLog[k].price = Val(o.price)
               /\ o.status = "filled" => o.fill_price = o.price

\* C12: when a trigger's check raises during a check of the manager, the
\* exception is caught and the trigger counts as not tripped: the call
\* returns and every registered trigger has been evaluated.
C12_TriggerErrorIsolated ==
    lastMgr.op = "check_triggers" =>
        /\ lastMgr.result # "raise"
        /\ (~lastMgr.short => lastMgr.evaluated = manager.triggers)

\* C13: a check of the manager made while it is not active, and that
\* returns, has evaluated every registered trigger, and every trigger that
\* returned True in it is in activated_triggers.
C13_AllTrippedCollected ==
    (lastMgr.op = "check_triggers" /\ ~lastMgr.short /\ lastMgr.result # "raise") =>
        /\ lastMgr.evaluated = manager.triggers
        /\ \A n \in lastMgr.tripped : InSeq(manager.activated_triggers, n)
        /\ manager.is_active = (lastMgr.tripped # {})

\* Two triggers returned True in the same check, the second after the first.
C13_Witness ==
    /\ lastMgr.op = "check_triggers"
    /\ ~lastMgr.short
    /\ lastMgr.result = "true"
    /\ Cardinality(lastMgr.tripped) >= 2
    /\ Len(manager.triggers) = 3

InvokedCount(callback, name) ==
    Cardinality({i \in 1..Len(invoked) : invoked[i] = <<callback, name>>})

\* C14: since the last reset, each activation callback has been invoked
\* exactly once with each trigger that has tripped, and never with a
\* trigger that has not.
C14_CallbackOncePerTrigger ==
    \A i \in 1..Len(Callbacks) : \A n \in TriggerNames :
        InvokedCount(Callbacks[i], n) = IF triggers[n].activated THEN 1 ELSE 0

\* A trigger that had tripped in an earlier check returned True again in the
\* latest one, and no callback was invoked for it again.
C14_Witness ==
    /\ lastMgr.op = "check_triggers"
    /\ lastMgr.tripped # {}
    /\ lastMgr.callbacks = <<>>
    /\ \A n \in lastMgr.tripped : \A i \in 1..Len(Callbacks) :
          InvokedCount(Callbacks[i], n) = 1

\* C15: a point whose evaluation raises, at whichever step, yields a
\* result with success false and objective -inf, the exception never leaves
\* the sweep, and the sweep returns one result for every point.
C15_FailureIsolated ==
    /\ sweep.status # "aborted"
    /\ \A k \in 1..Len(sweep.results) :
          sweep.points[sweep.results[k].point].fails # "none" =>
              /\ ~sweep.results[k].success
              /\ sweep.results[k].objective = <<"-inf">>
              /\ sweep.results[k].results = None
    /\ sweep.status = "returned" =>
          /\ Len(sweep.results) = Len(sweep.points)
          /\ {sweep.results[k].point : k \in 1..Len(sweep.results)} = DOMAIN sweep.points

\* The sweep returned, and a point was evaluated with success after another
\* one had failed.
C15_Witness ==
    /\ sweep.status = "returned"
    /\ \E k, l \in 1..Len(sweep.results) :
          /\ k < l
          /\ ~sweep.results[k].success
          /\ sweep.results[l].success
    /\ {sweep.points[i].fails : i \in DOMAIN sweep.points} \cap Stages # {}

\* C16: the result of a point does not depend on the points evaluated
\* before it or alongside it: two points of a sweep with the same
\* parameters have the same result.
C16_PointsIndependent ==
    \A k, l \in 1..Len(sweep.results) :
        sweep.points[sweep.results[k].point] = sweep.points[sweep.results[l].point] =>
            /\ sweep.results[k].success = sweep.results[l].success
            /\ sweep.results[k].objective = sweep.results[l].objective
            /\ sweep.results[k].results = sweep.results[l].results

(***************************************************************************)
(* C21: after every fill each position has total_cost = quantity *         *)
(* average_price; a fill that adds shares sets the average to the          *)
(* quantity-weighted mean of the old average and the fill price, a fill    *)
(* that removes part of the shares leaves the average as it was, and one   *)
(* that removes them all leaves quantity 0 and total_cost 0.               *)
(***************************************************************************)
C21_CostBasis ==
    [][\A s \in DOMAIN portfolio'.positions :
          \A old \in {GetPosition(portfolio.positions, s)[s]} :
          \A new \in {portfolio'.positions[s]} :
             /\ new.total_cost = RMul(R(new.quantity), new.average_price)
             /\ new.quantity > old.quantity =>
                   new.average_price =
                       RDiv(RAdd(RMul(R(old.quantity), old.average_price),
                                 R((new.quantity - old.quantity) * lastCall'.price)),
                            R(new.quantity))
             /\ (new.quantity < old.quantity /\ new.quantity > 0) =>
                   new.average_price = old.average_price
             /\ new.quantity = 0 => new.total_cost = R(0)]_vars

\* A position scaled in at a second price: one share bought at 1 and one at
\* 2 give the average 3/2 and the cost 3.
C21_Witness ==
    /\ "A" \in DOMAIN portfolio.positions
    /\ portfolio.positions["A"].quantity = 2
    /\ portfolio.positions["A"].average_price = <<3, 2>>
    /\ portfolio.positions["A"].total_cost = R(3)
    /\ lastCall.op = "execute_order"

(***************************************************************************)
(* C22: process_bar opens a position only on a bar for which the price     *)
(* buffer (before the bar is added to it) has at least lookback_period     *)
(* entries, the ATR (with the bar's true range) has at least atr_period    *)
(* samples, and the ATR is at least min_atr_threshold.                     *)
(***************************************************************************)
C22_EntryNeedsData ==
    [][(lastStrat'.op = "process_bar" /\ strat'.created > strat.created) =>
          /\ HasEnoughData(strat.price_buffer, strat.lookback_period)
          /\ HasEnoughSamples(strat'.true_ranges, AtrPeriod)
          /\ RGe(GetAtr(strat'.true_ranges), MinAtrThreshold)]_vars

\* process_bar has just opened a position, with a lookback_period for which
\* the buffer fills later than the ATR.
C22_Witness ==
    /\ lastStrat.op = "process_bar"
    /\ ~IsNone(strat.position)
    /\ Val(strat.position).timestamp = strat.bar_count
    /\ strat.lookback_period = LookbackPeriod + 1
    /\ Len(strat.price_buffer.highs) = strat.lookback_period + 1

(***************************************************************************)
(* C23: for every lookback_period >= 1, the threshold a breakout entry was *)
(* made at comes from the highest high (long) or the lowest low (short)    *)
(* of exactly the lookback_period - 1 bars before the bar: the level is    *)
(* the extreme of those bars, and of no older bar.  The level is recovered *)
(* from the entry: entry price less slippage less multiplier * ATR (long). *)
(***************************************************************************)
C23_ThresholdWindow ==
    [][(lastStrat'.op = "process_bar" /\ strat'.created > strat.created) =>
          \A pos \in {Val(strat'.position)} :
          \A band \in {RAdd(Slippage, RMul(pos.entry_atr, R(BreakoutMultiplier)))} :
          \A window \in {{i \in 1..Len(strat.price_buffer.highs) :
                             i > Len(strat.price_buffer.highs) - (strat.lookback_period - 1)}} :
             IF pos.is_long
             THEN \E i \in window :
                     /\ RSub(pos.entry_price, band) = R(strat.price_buffer.highs[i])
                     /\ \A j \in window :
                           strat.price_buffer.highs[j] <= strat.price_buffer.highs[i]
             ELSE \E i \in window :
                     /\ RAdd(pos.entry_price, band) = R(strat.price_buffer.lows[i])
                     /\ \A j \in window :
                           strat.price_buffer.lows[j] >= strat.price_buffer.lows[i]]_vars

(***************************************************************************)
(* C24: when process_bar of the EnhancedStrategy finds a position that has *)
(* a stop (the stop as it stands after the bar's trailing update), it      *)
(* closes the position if and only if the bar's low is <= the stop (long)  *)
(* or the bar's high is >= the stop (short), and the exit is made at the   *)
(* stop price: the P&L is size * (stop less slippage - entry price) for a  *)
(* long position and size * (entry price - stop plus slippage) for a short *)
(* one.                                                                    *)
(***************************************************************************)
C24_StopExit ==
    [][(lastStrat'.op = "process_bar" /\ ~IsNone(strat.position)
            /\ ~IsNone(lastStrat'.stop)) =>
          \A pos \in {Val(strat.position)} :
          \A stop \in {Val(lastStrat'.stop)} :
          \A b \in {Val(lastStrat'.bar)} :
          \A hit \in {IF pos.is_long THEN RLe(R(b.low), stop) ELSE RGe(R(b.high), stop)} :
             /\ IsNone(strat'.position) <=> hit
             /\ ~IsNone(lastStrat'.exit_result) <=> hit
             /\ hit =>
                   /\ Val(lastStrat'.exit_result).reason = "stop_loss"
                   /\ Val(lastStrat'.exit_result).pnl =
                         IF pos.is_long
                         THEN RMul(pos.size, RSub(RSub(stop, Slippage), pos.entry_price))
                         ELSE RMul(pos.size, RSub(pos.entry_price, RAdd(stop, Slippage)))]_vars

\* process_bar has just closed a position at a stop that is none of the
\* bar's close, low and high.
C24_Witness ==
    /\ lastStrat.op = "process_bar"
    /\ ~IsNone(lastStrat.exit_result)
    /\ ~IsNone(lastStrat.stop)
    /\ Val(lastStrat.stop) \notin {R(Val(lastStrat.bar).close), R(Val(lastStrat.bar).low),
                                   R(Val(lastStrat.bar).high)}
    /\ IsNone(strat.position)

(***************************************************************************)
(* C25: the trailing distance process_bar uses for an open position is the *)
(* current ATR exactly when use_dynamic_atr is set and the ATR has at      *)
(* least dynamic_atr_min_samples samples, and the position's entry ATR     *)
(* otherwise; with use_dynamic_atr false it is the same on successive bars *)
(* of the same position.                                                   *)
(***************************************************************************)
C25_TrailingDistance ==
    [][(lastStrat'.op = "process_bar" /\ ~IsNone(strat.position)) =>
          /\ Val(lastStrat'.distance) =
                IF /\ strat.use_dynamic_atr
                   /\ Len(strat'.true_ranges) >= strat.dynamic_atr_min_samples
                THEN GetAtr(strat'.true_ranges)
                ELSE Val(strat.position).entry_atr
          /\ (~strat.use_dynamic_atr /\ lastStrat.op = "process_bar"
                  /\ ~IsNone(lastStrat.distance)) =>
                lastStrat'.distance = lastStrat.distance]_vars

\* With use_dynamic_atr set but too few ATR samples, process_bar used the
\* entry ATR, which differs from the current ATR.
C25_Witness ==
    /\ lastStrat.op = "process_bar"
    /\ ~IsNone(lastStrat.distance)
    /\ ~IsNone(strat.position)
    /\ strat.use_dynamic_atr
    /\ Len(strat.true_ranges) < strat.dynamic_atr_min_samples
    /\ Val(lastStrat.distance) = Val(strat.position).entry_atr
    /\ Val(lastStrat.distance) # GetAtr(strat.true_ranges)

(***************************************************************************)
(* C26: the R-multiple reported by an exit is the position's P&L divided   *)
(* by size * entry ATR * stop_loss_atr_multiplier, and 0 when that         *)
(* denominator is <= 0.                                                    *)
(***************************************************************************)
C26_RMultiple ==
    [][(~IsNone(lastStrat'.exit_result) /\ ~IsNone(strat.position)) =>
          \A risk \in {RMul(RMul(Val(strat.position).size, Val(strat.position).entry_atr),
                            R(StopLossAtrMultiplier))} :
             Val(lastStrat'.exit_result).r_multiple =
                 IF RLe(risk, R(0)) THEN R(0)
                 ELSE RDiv(Val(lastStrat'.exit_result).pnl, risk)]_vars

(***************************************************************************)
(* C27: a check of a drawdown trigger that has not tripped yet trips it    *)
(* exactly when (peak - equity) / peak >= max_drawdown, peak being the     *)
(* highest equity the trigger was given up to and including this check     *)
(* (and positive); so the trigger trips at the first such check and at no  *)
(* earlier one.                                                            *)
(***************************************************************************)
C27_DrawdownTrips ==
    [][(triggers'["drawdown"].equity_history # triggers["drawdown"].equity_history) =>
          \A history \in {triggers'["drawdown"].equity_history} :
          \A peak \in {MaxOfSeq(history)} :
             peak > 0 =>
                \A tripped \in {RGe(RDiv(R(peak - history[Len(history)]), R(peak)),
                                    MaxDrawdown)} :
                   /\ triggers'["drawdown"].activated <=> tripped
                   /\ (lastResult'["drawdown"].result = "true") <=> tripped
                   /\ lastResult'["drawdown"].input = Some(history[Len(history)])]_vars

\* The marks 4, 3, 2 with max_drawdown 1/3: the drawdown is 1/4 at the
\* second mark and 1/2 at the third, where the trigger trips.
C27_Witness ==
    /\ triggers["drawdown"].equity_history = <<4, 3, 2>>
    /\ triggers["drawdown"].activated
    /\ lastResult["drawdown"] = [result |-> "true", input |-> Some(2)]
    /\ latched["drawdown"] = 1

(***************************************************************************)
(* C28: at all times the processors of a pipeline have pairwise distinct   *)
(* names, and the by-name map holds exactly the processors of the list,    *)
(* each under its name.                                                    *)
(***************************************************************************)
C28_DistinctNames ==
    \A list \in {pipeline.processors} :
       /\ \A i, j \in 1..Len(list) : i # j => list[i].name # list[j].name
       /\ DOMAIN pipeline.processor_map = {list[i].name : i \in 1..Len(list)}
       /\ \A n \in DOMAIN pipeline.processor_map :
             \E i \in 1..Len(list) :
                list[i].id = pipeline.processor_map[n] /\ list[i].name = n

(***************************************************************************)
(* C29: a process_bar or process_trade call on a pipeline that is not      *)
(* initialized raises the pipeline's error and leaves the pipeline and its *)
(* processors as they were; a call on an initialized pipeline finds every  *)
(* processor initialized, so no processor gets an event before its         *)
(* initialize.                                                             *)
(***************************************************************************)
C29_UninitializedRefused ==
    [][(pipeCalls' = pipeCalls + 1 /\ lastPipe'.op \in {"process_bar", "process_trade"}) =>
          IF ~pipeline.initialized
          THEN /\ lastPipe'.raised = "MetricsPipeline not initialized"
               /\ pipeline' = pipeline
          ELSE /\ \A i \in 1..Len(pipeline.processors) : pipeline.processors[i].initialized
               /\ lastPipe'.raised = "no"]_vars

\* A bar refused after the reset of a pipeline that had handled events.
C29_Witness ==
    /\ lastPipe = [op |-> "process_bar", raised |-> "MetricsPipeline not initialized"]
    /\ fresh.was_reset
    /\ fresh.discarded > 0
    /\ ~pipeline.initialized

(***************************************************************************)
(* C30: from reset followed by initialize(c) on, the summary metrics of    *)
(* the pipeline are those of a freshly constructed pipeline with the same  *)
(* processors that was initialized with c and given the same calls since,  *)
(* whatever the pipeline handled before the reset.                         *)
(***************************************************************************)
C30_ResetThenInitialize ==
    IsNone(fresh.pipeline) \/
       GetSummaryMetrics(pipeline) = GetSummaryMetrics(Val(fresh.pipeline))

\* initialize just called after the reset of a pipeline that had handled
\* at least two events.
C30_Witness ==
    /\ ~IsNone(fresh.pipeline)
    /\ fresh.discarded >= 2
    /\ lastPipe.op = "initialize"
    /\ Len(pipeline.processors) = 3

(***************************************************************************)
(* C31: the max drawdown duration a drawdown processor reports is the      *)
(* largest number of consecutive bars with the equity below the running    *)
(* peak; it is 0 when the equity never falls below its running peak.       *)
(***************************************************************************)
C31_DrawdownDuration ==
    \A i \in 1..Len(pipeline.processors) :
       \A p \in {pipeline.processors[i]} :
          (p.class = "DrawdownProcessor" /\ p.initialized) =>
             DrawdownGetMetrics(p).max_drawdown_duration =
                CalculateDrawdownDuration(p.equity_values)

\* The P&L of the round trips a list of trades closes, one for each sell:
\* its proceeds less the cost basis of the shares sold.
RECURSIVE RoundTripPnls(_, _)
RoundTripPnls(trades, positions) ==
    IF trades = <<>> THEN <<>>
    ELSE LET t == Head(trades)
             ps == GetPosition(positions, t.symbol)
         IN  IF t.side = "buy"
             THEN RoundTripPnls(Tail(trades),
                                [ps EXCEPT ![t.symbol] = AddShares(@, t.quantity, t.price)])
             ELSE <<RSub(R(t.value),
                         RMul(R(t.quantity),
                              RDiv(ps[t.symbol].total_cost, R(ps[t.symbol].quantity))))>>
                  \o RoundTripPnls(Tail(trades),
                                   [ps EXCEPT ![t.symbol] = RemoveShares(@, t.quantity)])

(***************************************************************************)
(* C32: in the trade statistics of a finished run the winning trades are   *)
(* the round trips with a positive P&L and the losing trades those with a  *)
(* negative P&L, whichever side the legs are on.                           *)
(***************************************************************************)
C32_WinLossBySign ==
    pc = "done" =>
       \A pnls \in {RoundTripPnls(portfolio.trades, <<>>)} :
       \A metrics \in {CalculateTradeMetrics(portfolio.trades)} :
          /\ metrics.winning_trades = Len(SelectSeq(pnls, LAMBDA x : RGt(x, R(0))))
          /\ metrics.losing_trades = Len(SelectSeq(pnls, LAMBDA x : RLt(x, R(0))))

(***************************************************************************)
(* C33: after any sequence of bars the calculator holds the most recent    *)
(* min(n, period) true ranges, in order; the ATR add_bar returned is their *)
(* arithmetic mean, and get_atr is 0 without true ranges; so after one or  *)
(* more bars that all have the true range x the ATR is x.                  *)
(***************************************************************************)
C33_AtrWindow ==
    \A seen \in {SeenRanges} :
    \A kept \in {IF Len(seen) <= AtrPeriod THEN Len(seen) ELSE AtrPeriod} :
       /\ Len(strat.true_ranges) <= AtrPeriod
       /\ strat.true_ranges = SubSeq(seen, Len(seen) - kept + 1, Len(seen))
       /\ IF seen = <<>> THEN GetAtr(strat.true_ranges) = R(0)
          ELSE /\ RMul(lastStrat.atr, R(kept)) =
                     R(SumSeq(SubSeq(seen, Len(seen) - kept + 1, Len(seen))))
               /\ lastStrat.atr = GetAtr(strat.true_ranges)
               /\ \A x \in 0..3 :
                     (\A k \in 1..Len(seen) : seen[k] = x) => lastStrat.atr = R(x)

\* More bars than the period, the oldest true range differing from the
\* ones kept.
C33_Witness ==
    /\ lastStrat.op = "add_bar"
    /\ Len(lastStrat.seen) > AtrPeriod
    /\ Len(strat.true_ranges) = AtrPeriod
    /\ lastStrat.seen[1] # lastStrat.seen[Len(lastStrat.seen)]
    /\ lastStrat.seen[1] # lastStrat.seen[2]

(***************************************************************************)
(* C34: a price buffer never holds more than size bars; its highs, lows    *)
(* and closes have the same length and are those of the most recent        *)
(* min(n, size) bars added, in arrival order.                              *)
(***************************************************************************)
C34_BufferWindow ==
    \A seen \in {SeenBars} :
    \A kept \in {IF Len(seen) <= strat.size THEN Len(seen) ELSE strat.size} :
    \A recent \in {SubSeq(seen, Len(seen) - kept + 1, Len(seen))} :
       /\ Len(strat.highs) <= strat.size
       /\ Len(strat.lows) = Len(strat.highs)
       /\ Len(strat.closes) = Len(strat.highs)
       /\ strat.highs = [k \in 1..kept |-> recent[k].high]
       /\ strat.lows = [k \in 1..kept |-> recent[k].low]
       /\ strat.closes = [k \in 1..kept |-> recent[k].close]

\* More bars than the size, the evicted bar differing from the oldest kept.
C34_Witness ==
    /\ lastStrat.op = "add_bar"
    /\ Len(lastStrat.seen) > strat.size
    /\ Len(strat.highs) = strat.size
    /\ strat.size > 1
    /\ lastStrat.seen[Len(lastStrat.seen) - strat.size] #
          lastStrat.seen[Len(lastStrat.seen) - strat.size + 1]

\* The bars for which run() has called strategy.on_data, in call order.
OnDataBars(log) ==
    LET called == SelectSeq(log, LAMBDA e : e[2] = "strategy")
    IN  [k \in 1..Len(called) |-> called[k][1]]

(***************************************************************************)
(* C35: in a run on_start is called once, before any bar is processed (it  *)
(* is the step that leaves "idle", to which no step returns); on_data is   *)
(* called once for each bar in data order, without a gap, for all the bars *)
(* or for the bars before the one at which the kill switch tripped; and    *)
(* on_finish is called once (the step to "done", which no step leaves),    *)
(* after the last of these bars.                                           *)
(***************************************************************************)
C35_Callbacks ==
    [][/\ pc = "idle" => (stepLog = <<>> /\ closeLog = <<>> /\ pc' = "bar")
       /\ pc' # "idle"
       /\ pc # "done"
       /\ \A bars \in {OnDataBars(stepLog')} :
             /\ \A k \in 1..Len(bars) : bars[k] = k - 1
             /\ pc' = "done" =>
                   /\ pc = "finish"
                   /\ Len(bars) = IF IsNone(killBar) THEN NumBars ELSE Val(killBar)]_vars

\* A finished run in which the kill switch tripped after the first bar.
C35_Witness ==
    /\ pc = "done"
    /\ ~IsNone(killBar)
    /\ Val(killBar) >= 1
    /\ Len(OnDataBars(stepLog)) = Val(killBar)

(***************************************************************************)
(* C36: whatever orders with positive quantities are executed at whatever  *)
(* prices, the cash of the portfolio is never negative and no position has *)
(* a negative quantity.                                                    *)
(***************************************************************************)
C36_NoOverdraftNoShort ==
    /\ portfolio.cash >= 0
    /\ \A symbol \in DOMAIN portfolio.positions :
          portfolio.positions[symbol].quantity >= 0

\* All the cash spent, and a further order refused by execute_order.
C36_Witness ==
    /\ lastCall.op = "execute_order"
    /\ portfolio.orders[lastCall.order].status = "rejected"
    /\ portfolio.cash = 0
    /\ \E symbol \in DOMAIN portfolio.positions :
          portfolio.positions[symbol].quantity > 0

(***************************************************************************)
(* C37: the first check_triggers after reset_all_triggers decides as a     *)
(* freshly constructed manager with freshly constructed triggers of the    *)
(* same kinds decides on the same observation: the same result and the     *)
(* same triggers tripped.                                                  *)
(***************************************************************************)
C37_ResetLikeFresh ==
    [][(lastMgr.op = "reset_all_triggers" /\ lastMgr'.op = "check_triggers"
            /\ mgrCalls' = mgrCalls + 1) =>
          \E value \in ManagerValues, timestamp \in ManagerTimestamps :
             \A input \in {[value |-> value, timestamp |-> timestamp,
                            initial_cash |-> portfolio.initial_cash]} :
             \A actual \in {ManagerCheckTriggers(manager, triggers, input)} :
             \A new \in {ManagerCheckTriggers([NewManager EXCEPT !.triggers = manager.triggers],
                                              NewTriggers, input)} :
                /\ actual.manager = manager'
                /\ actual.triggers = triggers'
                /\ actual.result = lastMgr'.result
                /\ new.result = lastMgr'.result
                /\ new.tripped = lastMgr'.tripped]_vars


(***************************************************************************)
(* C38: one process_bar call changes the position at most once.  A call    *)
(* that began with a position opens none (the position is kept, or closed  *)
(* and not replaced); a call that began without one manages and closes     *)
(* nothing, opens at most one position and leaves it open.                 *)
(***************************************************************************)
C38_PositionChangesOnce ==
    [][(lastStrat'.op = "process_bar" /\ stratCalls' = stratCalls + 1) =>
          /\ ~IsNone(strat.position) =>
                /\ strat'.created = strat.created
                /\ \/ IsNone(strat'.position)
                   \/ Val(strat'.position).id = Val(strat.position).id
          /\ IsNone(strat.position) =>
                /\ IsNone(lastStrat'.distance)
                /\ strat'.created \in {strat.created, strat.created + 1}
                /\ strat'.created = strat.created + 1 =>
                      /\ ~IsNone(strat'.position)
                      /\ Val(strat'.position).id = strat'.created
                /\ strat'.created = strat.created =>
                      /\ IsNone(strat'.position)
                      /\ strat'.realized_pnl = strat.realized_pnl]_vars

\* process_bar has just closed, on its stop, the first position the
\* strategy opened, and no position is open after it.
C38_Witness ==
    /\ lastStrat.op = "process_bar"
    /\ ~IsNone(lastStrat.distance)
    /\ IsNone(strat.position)
    /\ strat.created = 1


\* The limit of order o is not met at price: run() skips the order.
LimitNotMet(o, price) ==
    \/ o.side = "buy" /\ price > Val(o.price)
    \/ o.side = "sell" /\ price < Val(o.price)

(***************************************************************************)
(* C39: in a run no buy limit order is filled above its limit price and no *)
(* sell limit order below it, and the pending-orders step of a bar leaves  *)
(* a pending limit order whose condition the bar does not meet exactly as  *)
(* it was: pending, not filled, no field changed.                          *)
(***************************************************************************)
C39_LimitRespected ==
    [][/\ \A i \in 1..Len(portfolio'.orders) :
             LET o == portfolio'.orders[i]
             IN  (~IsNone(o.price) /\ o.status = "filled") =>
                    ~LimitNotMet(o, Val(o.fill_price))
       /\ pc = "exec" =>
             \A i \in 1..Len(portfolio.orders) :
                LET o == portfolio.orders[i]
                IN  (/\ o.status = "pending"
                     /\ ~IsNone(o.price)
                     /\ o.symbol \in DOMAIN current_prices
                     /\ LimitNotMet(o, current_prices[o.symbol])) =>
                       /\ portfolio'.orders[i] = o
                       /\ \A k \in 1..Len(execLog') : execLog'[k].order = i =>
                              k <= Len(execLog)]_vars

\* A buy limit order was filled on the second bar after it was placed: the
\* bar between closed above its limit and left it pending.
C39_Witness ==
    \E i \in 1..Len(portfolio.orders), k \in 1..Len(execLog) :
        LET o == portfolio.orders[i]
        IN  /\ ~IsNone(o.price)
            /\ o.side = "buy"
            /\ o.status = "filled"
            /\ closeLog[o.created_bar + 2][o.symbol] > Val(o.price)
            /\ execLog[k].order = i
            /\ execLog[k].bar > o.created_bar + 1
            /\ \A j \in 1..Len(execLog) : execLog[j].order = i => j = k


\* The orders in which the workers of a sweep of n points may complete.
CompletionOrders(n) ==
    {order \in [1..n -> 1..n] : \A i, j \in 1..n : order[i] = order[j] => i = j}

\* result['parameters'] of the best result of a sweep, None when no point
\* succeeded.
BestParameters(sw, results) ==
    IF IsNone(GetBestResult(results)) THEN None
    ELSE Some(sw.points[Val(GetBestResult(results)).point])

(***************************************************************************)
(* C40: a parallel sweep that has returned holds exactly one result for    *)
(* each parameter point, and the parameters of its best result are the     *)
(* same for every order in which the same results could have been          *)
(* collected.                                                              *)
(***************************************************************************)
C40_BestOrderFree ==
    (sweep.mode = "parallel" /\ sweep.status = "returned") =>
        /\ Len(sweep.results) = Len(sweep.points)
        /\ \A p \in 1..Len(sweep.points) :
              \E k \in 1..Len(sweep.results) :
                 /\ sweep.results[k].point = p
                 /\ \A l \in 1..Len(sweep.results) :
                       sweep.results[l].point = p => l = k
        /\ \A order \in CompletionOrders(Len(sweep.results)) :
              BestParameters(sweep, [k \in 1..Len(sweep.results) |->
                                        sweep.results[order[k]]])
                 = BestParameters(sweep, sweep.results)

====
